---- MODULE Spec2Model ----
(***************************************************************************)
(* Model of the Knowly learning-material application                       *)
(* (src/hooks/use-gpt-chat.ts, src/components/AuthDialog.tsx).             *)
(*                                                                         *)
(* Each action is one synchronous run-to-completion step of the React      *)
(* component: an event handler up to its first await, or the continuation  *)
(* of an async handler from one await to the next.  The effect that saves  *)
(* the materials to localStorage after every render is part of each action *)
(* that changes the materials.                                             *)
(*                                                                         *)
(* Optional values (undefined / null) are sequences: <<>> is absent,       *)
(* <<v>> is present.  Strings that the code slices or trims are sequences  *)
(* of symbols.                                                             *)
(***************************************************************************)
EXTENDS Integers, Sequences, FiniteSets, TLC

(***************************************************************************)
(* Bounds of the model                                                     *)
(***************************************************************************)
MaxIds == 2
MaxInFlight == 2
MaxUploads == 4
MaxDay == 2
MaxRunIds == 1
MaxQuizIds == 1
MaxAttempts == 2
MaxSortLen == 3

(***************************************************************************)
(* Program constants                                                       *)
(***************************************************************************)
FREE_DAILY_LIMIT == 3
MinPasswordLength == 6
DetectPrefixLen == 1000
TitlePrefixLen == 2000
ContentPrefixLen == 4000

None == <<>>
Some(v) == <<v>>
IsSome(o) == o # <<>>
Get(o) == o[1]

\* Numbers that need not be whole are kept as fractions in lowest terms;
\* NaN is the result of 0 / 0.
NaN == <<0, 0>>

RECURSIVE Gcd(_, _)
Gcd(a, b) == IF b = 0 THEN a ELSE Gcd(b, a % b)

\* (a / b) * 100
TimesHundred(a, b) ==
  IF b = 0 THEN NaN ELSE LET g == Gcd(a * 100, b) IN << (a * 100) \div g, b \div g >>

\* {}: no question answered
NoAnswers == [i \in {} |-> 0]

Min(a, b) == IF a < b THEN a ELSE b

(***************************************************************************)
(* String helpers: String.prototype.slice(0, n) and String.prototype.trim  *)
(***************************************************************************)
\* Mutant: the text is not truncated
SliceWhole(s, n) == s

Slice(s, n) == SubSeq(s, 1, Min(n, Len(s)))

\* White space: space, tab, line feed
IsSpace(c) == c \in {" ", "\t", "\n"}

RECURSIVE TrimStart(_)
TrimStart(s) ==
  IF s = <<>> THEN <<>>
  ELSE IF IsSpace(Head(s)) THEN TrimStart(Tail(s)) ELSE s

RECURSIVE TrimEnd(_)
TrimEnd(s) ==
  IF s = <<>> THEN <<>>
  ELSE IF IsSpace(s[Len(s)]) THEN TrimEnd(SubSeq(s, 1, Len(s) - 1)) ELSE s

\* Mutant: only the leading white space is removed
TrimLeadingOnly(s) == TrimStart(s)

Trim(s) == TrimEnd(TrimStart(s))

(***************************************************************************)
(* Completion texts.  A text is a sequence of symbols; the JSON documents  *)
(* the backend may answer with are one-symbol texts whose decoding is      *)
(* given by JsonParse.                                                     *)
(***************************************************************************)
LessonA == [title |-> "t1", content |-> "c1"]
LessonB == [title |-> "t2", content |-> "c2"]
QuestionA == [question |-> "q1", options |-> <<"a", "b", "c", "d">>, correctAnswer |-> 0]
QuestionB == [question |-> "q2", options |-> <<"a", "b", "c", "d">>, correctAnswer |-> 3]
QuestionC == [question |-> "q3", options |-> <<"a", "b", "c", "d">>, correctAnswer |-> 7]
CardA == [front |-> "f1", back |-> "b1"]

NoFields == [lessons |-> None, questions |-> None, flashcards |-> None]

\* JSON.parse: <<>> when the text is not valid JSON (the call throws),
\* otherwise the decoded object with its optional list fields.
JsonParse(text) ==
  CASE text = <<"{lessons:[A,B]}">> -> Some([NoFields EXCEPT !.lessons = Some(<<LessonA, LessonB>>)])
    [] text = <<"{questions:[A]}">> -> Some([NoFields EXCEPT !.questions = Some(<<QuestionA>>)])
    [] text = <<"{questions:[B,A]}">> -> Some([NoFields EXCEPT !.questions = Some(<<QuestionB, QuestionA>>)])
    [] text = <<"{questions:[]}">> -> Some([NoFields EXCEPT !.questions = Some(<<>>)])
    [] text = <<"{questions:[A,C]}">> -> Some([NoFields EXCEPT !.questions = Some(<<QuestionA, QuestionC>>)])
    [] text = <<"{flashcards:[A]}">> -> Some([NoFields EXCEPT !.flashcards = Some(<<CardA>>)])
    [] text = <<"{}">> -> Some(NoFields)
    [] OTHER -> None

\* x || [] for an optional list
OrEmpty(o) == IF IsSome(o) /\ Get(o) # <<>> THEN Get(o) ELSE <<>>

\* Mutant: the fallback lesson is used whatever the completion holds
ParseLessonsAlwaysWraps(text) == <<[title |-> "Overview", content |-> text]>>

ParseLessons(text) ==
  LET lessonsData == JsonParse(text) IN
  IF IsSome(lessonsData) THEN OrEmpty(Get(lessonsData).lessons)
  ELSE <<[title |-> "Overview", content |-> text]>>

ParseQuestions(text) ==
  LET quizData == JsonParse(text) IN
  IF IsSome(quizData) THEN OrEmpty(Get(quizData).questions) ELSE <<>>

ParseFlashcards(text) ==
  LET flashcardsData == JsonParse(text) IN
  IF IsSome(flashcardsData) THEN OrEmpty(Get(flashcardsData).flashcards) ELSE <<>>

(***************************************************************************)
(* Chat-completion client (useGPTChatMutation.mutationFn)                  *)
(***************************************************************************)
Message(role, content) == [role |-> role, content |-> content]

ValidRoles == {"system", "user", "assistant"}

\* Backend responses: error flag and optional data; the data holds the
\* choices (an absent and an empty list are both <<>>), each with its
\* optional message content and finish_reason, and the optional usage.
Usage == [prompt_tokens |-> 1, completion_tokens |-> 1, total_tokens |-> 2]
Choice(content, finish) == [content |-> content, finish_reason |-> finish]
BackendData(choices, usage) ==
  [error |-> FALSE, data |-> Some([choices |-> choices, usage |-> usage])]

BackendError == [error |-> TRUE, data |-> None]
BackendNoData == [error |-> FALSE, data |-> None]
BackendNoChoices == BackendData(<<>>, Some(Usage))
BackendEmptyContent == BackendData(<<Choice(<<>>, "stop")>>, Some(Usage))
BackendNoUsage(text) == BackendData(<<Choice(text, "stop")>>, None)
BackendFinish(text, finish) == BackendData(<<Choice(text, finish)>>, Some(Usage))
BackendOk(text) == BackendFinish(text, "stop")

Failure(msg) == [ok |-> FALSE, content |-> <<>>, message |-> msg, finishReason |-> ""]
Success(text, finish) == [ok |-> TRUE, content |-> text, message |-> "", finishReason |-> finish]

\* Mutant: the roles are not checked against the valid ones
ValidationErrorAnyRole(messages) ==
  IF messages = <<>> THEN Some("At least one message is required")
  ELSE IF \E i \in 1..Len(messages) : messages[i].role = "" \/ messages[i].content = <<>>
    THEN Some("Each message must have a role and content")
  ELSE None

\* Validate input, validate message structure: the error thrown, if any
ValidationError(messages) ==
  IF messages = <<>> THEN Some("At least one message is required")
  ELSE IF \E i \in 1..Len(messages) : messages[i].role = "" \/ messages[i].content = <<>>
    THEN Some("Each message must have a role and content")
  ELSE IF \E i \in 1..Len(messages) : messages[i].role \notin ValidRoles
    THEN Some("Invalid message role")
  ELSE None

\* Number of createChatCompletion requests an invocation makes
BackendRequests(messages) == IF IsSome(ValidationError(messages)) THEN 0 ELSE 1

mutationFn(messages, response) ==
  IF IsSome(ValidationError(messages)) THEN Failure(Get(ValidationError(messages)))
  ELSE IF response.error
    THEN Failure("Chat completion request failed. Please check your API credentials.")
  ELSE IF response.data = None
    THEN Failure("No response data received from chat completion API")
  ELSE IF Get(response.data).choices = <<>>
    THEN Failure("No completion choices returned from API")
  ELSE IF Get(response.data).choices[1].content = <<>>
    THEN Failure("No content in completion response")
  ELSE IF Get(response.data).usage = None
    THEN Failure("TypeError: Cannot read properties of undefined (reading 'prompt_tokens')")
  ELSE Success(Get(response.data).choices[1].content,
               Get(response.data).choices[1].finish_reason)

(***************************************************************************)
(* Prompts.  A prompt text is its template followed by the interpolated    *)
(* strings.                                                                *)
(***************************************************************************)
lessonConfig(length) ==
  CASE length = "short" -> [count |-> "2-3", detail |-> "brief"]
    [] length = "normal" -> [count |-> "4-5", detail |-> "moderate"]
    [] length = "long" -> [count |-> "6-8", detail |-> "comprehensive"]

DetectPrompt(text) ==
  << Message("system", <<"detect language">>),
     Message("user", <<"Detect the language of this text:">> \o Slice(text, DetectPrefixLen)) >>

TitlePrompt(text, language) ==
  << Message("system", <<"generate title in">> \o language),
     Message("user", <<"Generate a title for this content:">> \o Slice(text, TitlePrefixLen)) >>

CategoryPrompt(text, language) ==
  << Message("system", <<"categorize in">> \o language),
     Message("user", <<"Categorize this content:">> \o Slice(text, TitlePrefixLen)) >>

LessonsPrompt(text, language, length) ==
  << Message("system", <<"Create", lessonConfig(length).count, lessonConfig(length).detail,
                         "micro-lessons. You MUST respond in">> \o language),
     Message("user", <<"Create micro-lessons from this text:">> \o Slice(text, ContentPrefixLen)) >>

QuizPrompt(text, language) ==
  << Message("system", <<"Create 5-7 questions. You MUST respond in">> \o language),
     Message("user", <<"Create quiz questions from this text:">> \o Slice(text, ContentPrefixLen)) >>

SummaryPrompt(text, language) ==
  << Message("system", <<"Create a summary. You MUST respond in">> \o language),
     Message("user", <<"Summarize this text:">> \o Slice(text, ContentPrefixLen)) >>

FlashcardsPrompt(text, language) ==
  << Message("system", <<"Create 10-12 flashcards. You MUST respond in">> \o language),
     Message("user", <<"Create flashcards from this text:">> \o Slice(text, ContentPrefixLen)) >>

NewQuestionsPrompt(text, language) ==
  << Message("system", <<"Create 5-7 NEW and DIFFERENT questions. You MUST respond in">> \o language),
     Message("user", <<"Create NEW quiz questions from this text:">> \o Slice(text, ContentPrefixLen)) >>

(***************************************************************************)
(* State                                                                   *)
(***************************************************************************)
VARIABLES
  materials,              \* useState<UploadedMaterial[]>: the store
  selectedMaterial,       \* useState<UploadedMaterial | null>: a copy of a record
  processingProgress,     \* useState(0)
  lessonLength,           \* useState<LessonLength>("normal")
  isGeneratingQuestions,  \* useState(false)
  subscription,           \* useState<SubscriptionStatus>
  todayUploadCount,       \* useState(0)
  currentUser,            \* useState<UserData | null>
  localStorage,           \* the browser's localStorage, by key
  runs,                   \* handleFileUpload invocations suspended at an await
  questionsRun,           \* generateNewQuestions invocation suspended at its await
  today,                  \* new Date().toDateString(), as a day number
  nextId,                 \* number of materials created so far, plus one
  chatFailed,             \* ids whose run had a chat call fail since the page load
  progressWrites,         \* values passed to setProcessingProgress by the last step that set it
  accepted,               \* uploads accepted on the current day: all, and by a free session
  probe,                  \* one invocation of a function on its own: its inputs and its result
  quizAnswers,            \* useState<Record<number, number | null>>({}): option chosen, by question
  revealedAnswers,        \* useState<Record<number, boolean>>({}): the questions revealed
  questionsOutcome,       \* how the last generateNewQuestions invocation ended, None once another starts
  authError               \* AuthDialog: useState(""), the message of the failed attempt

vars == << materials, selectedMaterial, processingProgress, lessonLength,
           isGeneratingQuestions, subscription, todayUploadCount, currentUser,
           localStorage, runs, questionsRun, today, nextId, progressWrites,
           chatFailed, accepted, probe, quizAnswers, revealedAnswers, questionsOutcome, authError >>

LessonLengths == {"short", "normal", "long"}
Statuses == {"pending", "processing", "completed", "error"}

(***************************************************************************)
(* Inputs the environment may supply                                       *)
(***************************************************************************)
Files == { [name |-> "notes.txt", valid |-> TRUE], [name |-> "photo.png", valid |-> FALSE] }
NewNames == {"renamed.txt"}
ExtractedTexts == { <<>>, <<"x", "y">> }
UploadErrors == {"Failed to generate presigned URL"}
ExtractErrors == {"Unknown error"}
LanguageAnswers == { <<" ", "E", "N", " ">> }
LessonsAnswers == { <<"{lessons:[A,B]}">> }
QuizAnswers == { <<"{questions:[A]}">> }
SummaryAnswers == { <<"summary">> }
FlashcardsAnswers == { <<"{flashcards:[A]}">> }
TitleAnswers == { <<"A", " ", "T">> }
CategoryAnswers == { <<"Science">> }
NewQuestionsAnswers == { <<"{questions:[B,A]}">>, <<"{questions:[]}">>, <<"not json">> }
FailureResponses == { BackendError, BackendNoData, BackendNoChoices, BackendEmptyContent }
Emails == {"a@b.c"}
AccountEmails == {"a@b.c", "d@e.f"}

(***************************************************************************)
(* Materials store helpers                                                 *)
(***************************************************************************)
NewMaterial(id, file) ==
  [ id |-> id, fileName |-> file.name, fileUrl |-> "", uploadedAt |-> id,
    extractedText |-> <<>>, detectedLanguage |-> None, suggestedTitle |-> None,
    thematicCategory |-> None, content |-> None, processingStatus |-> "pending",
    error |-> None, quizResults |-> <<>> ]

Ids(ms) == { ms[i].id : i \in 1..Len(ms) }

Find(ms, id) == ms[CHOOSE i \in 1..Len(ms) : ms[i].id = id]

Elems(ms) == { ms[i] : i \in 1..Len(ms) }

\* Mutant: the update is applied to every record
MapAll(ms, id, f) == [ i \in 1..Len(ms) |-> f[ms[i]] ]

\* prev.map((m) => m.id === id ? f(m) : m), f given as a function on the
\* materials of prev
MapById(ms, id, f) ==
  [ i \in 1..Len(ms) |-> IF ms[i].id = id THEN f[ms[i]] ELSE ms[i] ]

\* prev.filter((m) => m.id !== id)
RECURSIVE FilterOut(_, _)
FilterOut(ms, id) ==
  IF ms = <<>> THEN <<>>
  ELSE IF Head(ms).id = id THEN FilterOut(Tail(ms), id)
  ELSE <<Head(ms)>> \o FilterOut(Tail(ms), id)

\* JSON.stringify of a number: NaN is written as null
StringifyNumber(x) == IF x = NaN THEN <<>> ELSE x

\* JSON.stringify of a quiz result: the date becomes an ISO string
StringifyResult(r) ==
  [r EXCEPT !.timestamp = <<"iso", r.timestamp>>, !.percentage = StringifyNumber(r.percentage)]

\* { ...r, timestamp: new Date(r.timestamp) }
RehydrateResult(r) == [r EXCEPT !.timestamp = r.timestamp[2]]

\* JSON.stringify of the materials: dates become ISO strings
Stringify(ms) ==
  [ i \in 1..Len(ms) |->
      [ms[i] EXCEPT !.uploadedAt = <<"iso", ms[i].uploadedAt>>,
                    !.quizResults = [k \in 1..Len(@) |-> StringifyResult(@[k])]] ]

\* JSON.parse and the re-hydration of the dates on mount
Rehydrate(stored) ==
  [ i \in 1..Len(stored) |->
      [stored[i] EXCEPT !.uploadedAt = stored[i].uploadedAt[2],
                        !.quizResults = [k \in 1..Len(@) |-> RehydrateResult(@[k])]] ]

\* The effect that saves the materials after a render that changed them
SaveMaterials(storage, ms) ==
  IF Len(ms) > 0 THEN [storage EXCEPT !.materials = Some(Stringify(ms))] ELSE storage

\* The effect that saves the subscription status
SaveSubscription(storage, sub) == [storage EXCEPT !.subscription = Some(sub)]

(***************************************************************************)
(* Upload gate                                                             *)
(***************************************************************************)
UserIsPremium == IsSome(currentUser) /\ Get(currentUser).isPremium

\* Mutant: the limit compared with <= instead of <
canUploadInclusive ==
  IF UserIsPremium \/ subscription.isPremium THEN TRUE
  ELSE todayUploadCount <= FREE_DAILY_LIMIT

canUpload ==
  IF UserIsPremium \/ subscription.isPremium THEN TRUE
  ELSE todayUploadCount < FREE_DAILY_LIMIT

GateRejects == ~UserIsPremium /\ ~canUpload

InitApp ==
  /\ materials = <<>>
  /\ selectedMaterial = None
  /\ processingProgress = 0
  /\ lessonLength = "normal"
  /\ isGeneratingQuestions = FALSE
  /\ subscription = [isPremium |-> FALSE]
  /\ todayUploadCount = 0
  /\ currentUser = None
  /\ localStorage = [ materials |-> None, subscription |-> Some([isPremium |-> FALSE]),
                      limits |-> None, users |-> [e \in {} |-> 0], currentUserEmail |-> None ]
  /\ runs = [i \in {} |-> 0]
  /\ questionsRun = None
  /\ today = 1
  /\ nextId = 1
  /\ progressWrites = <<>>
  /\ chatFailed = {}
  /\ accepted = [all |-> 0, free |-> 0]
  /\ quizAnswers = NoAnswers
  /\ revealedAnswers = {}
  /\ questionsOutcome = None
  /\ authError = ""

Init == InitApp /\ probe = None

appVars == << materials, selectedMaterial, processingProgress, lessonLength,
              isGeneratingQuestions, subscription, todayUploadCount, currentUser,
              localStorage, runs, questionsRun, today, nextId, progressWrites,
              chatFailed, accepted, quizAnswers, revealedAnswers, questionsOutcome, authError >>

(***************************************************************************)
(* Suspended handleFileUpload invocations                                  *)
(***************************************************************************)
ChatStages == {"detect", "lessons", "quiz", "summary", "flashcards", "title", "category"}

\* Mutant: the length is not passed on and the parameter's default is used
NewRunDefaultLength(length) ==
  [ pc |-> "upload", lessonLength |-> "normal", req |-> <<>>, issued |-> <<>>,
    returned |-> 0, extractedText |-> <<>>, languageAnswer |-> <<>>,
    detectedLanguage |-> <<>>,
    lessons |-> <<>>, quiz |-> <<>>, summary |-> <<>>, flashcards |-> <<>>,
    content |-> None, suggestedTitle |-> <<>> ]

\* languageAnswer keeps the detection completion as it was received
NewRun(length) ==
  [ pc |-> "upload", lessonLength |-> length, req |-> <<>>, issued |-> <<>>,
    returned |-> 0, extractedText |-> <<>>, languageAnswer |-> <<>>,
    detectedLanguage |-> <<>>,
    lessons |-> <<>>, quiz |-> <<>>, summary |-> <<>>, flashcards |-> <<>>,
    content |-> None, suggestedTitle |-> <<>> ]

\* Mutant: the call is sent twice
IssueTwice(run, stage, req) ==
  [run EXCEPT !.pc = stage, !.req = req, !.issued = Append(Append(@, stage), stage)]

\* chatMutation.mutateAsync(req) followed by await
Issue(run, stage, req) ==
  [run EXCEPT !.pc = stage, !.req = req, !.issued = Append(@, stage)]

WithRun(id, run) == [ i \in DOMAIN runs \cup {id} |-> IF i = id THEN run ELSE runs[i] ]
WithoutRun(id) == [ i \in DOMAIN runs \ {id} |-> runs[i] ]

Awaiting(id, stage) == id \in DOMAIN runs /\ runs[id].pc = stage

\* selectedMaterial?.id
SelectedId(sel) == IF IsSome(sel) THEN <<Get(sel).id>> ELSE <<>>

\* useEffect(..., [selectedMaterial?.id]): the quiz state is cleared by the
\* render in which the id of the selection changed
ResetQuizState ==
  IF SelectedId(selectedMaterial') = SelectedId(selectedMaterial)
  THEN UNCHANGED << quizAnswers, revealedAnswers >>
  ELSE quizAnswers' = NoAnswers /\ revealedAnswers' = {}

SessionPremium == UserIsPremium \/ subscription.isPremium

(***************************************************************************)
(* handleFileUpload: from the change event to the first await              *)
(***************************************************************************)
\* The gate fires: the subscription dialog is shown, nothing else happens.
HandleFileUploadRejected ==
  /\ GateRejects
  /\ UNCHANGED << progressWrites, materials, selectedMaterial, processingProgress, lessonLength,
                  isGeneratingQuestions, subscription, todayUploadCount, currentUser,
                  localStorage, runs, questionsRun, today, nextId, chatFailed, accepted, probe, authError, questionsOutcome, quizAnswers, revealedAnswers >>

\* The format check fails: an alert, nothing else happens.
HandleFileUploadInvalidFormat(file) ==
  /\ ~GateRejects
  /\ ~file.valid
  /\ UNCHANGED << progressWrites, materials, selectedMaterial, processingProgress, lessonLength,
                  isGeneratingQuestions, subscription, todayUploadCount, currentUser,
                  localStorage, runs, questionsRun, today, nextId, chatFailed, accepted, probe, authError, questionsOutcome, quizAnswers, revealedAnswers >>

\* incrementUploadCount
incrementUploadCount(storage) ==
  [storage EXCEPT !.limits = Some([date |-> today, count |-> todayUploadCount + 1])]

HandleFileUploadAccepted(file) ==
  /\ ~GateRejects
  /\ file.valid
  /\ LET newMaterial == NewMaterial(nextId, file)
         ms == Append(materials, newMaterial)
     IN /\ materials' = ms
        /\ selectedMaterial' = Some(newMaterial)
        /\ localStorage' = SaveMaterials(incrementUploadCount(localStorage), ms)
  /\ processingProgress' = 0
  /\ progressWrites' = <<0>>
  /\ todayUploadCount' = todayUploadCount + 1
  /\ runs' = WithRun(nextId, NewRun(lessonLength))
  /\ nextId' = nextId + 1
  /\ accepted' = [ all |-> accepted.all + 1,
                   free |-> IF SessionPremium THEN accepted.free ELSE accepted.free + 1 ]
  /\ UNCHANGED << lessonLength, isGeneratingQuestions, subscription, currentUser,
                  questionsRun, today, chatFailed, probe, authError, questionsOutcome >>
  /\ ResetQuizState

(***************************************************************************)
(* handleFileUpload: continuations after the upload and the extraction     *)
(***************************************************************************)
\* Mutant: the file URL is stored but the status stays pending
SetUploadedKeepsStatus(m) == [m EXCEPT !.fileUrl = "url"]

SetUploaded(m) == [m EXCEPT !.fileUrl = "url", !.processingStatus = "processing"]

UploadSucceeds(id) ==
  /\ Awaiting(id, "upload")
  /\ LET ms == MapById(materials, id, [mat \in Elems(materials) |-> SetUploaded(mat)])
     IN /\ materials' = ms
        /\ localStorage' = SaveMaterials(localStorage, ms)
  /\ processingProgress' = 10
  /\ progressWrites' = <<10>>
  /\ runs' = WithRun(id, [runs[id] EXCEPT !.pc = "extract"])
  /\ UNCHANGED << selectedMaterial, lessonLength, isGeneratingQuestions, subscription,
                  todayUploadCount, currentUser, questionsRun, today, nextId, chatFailed, accepted, probe, authError, questionsOutcome, quizAnswers, revealedAnswers >>

\* Mutant: the message is stored but the status is not changed
SetErrorKeepsStatus(m, msg) == [m EXCEPT !.error = Some(msg)]

\* Mutant: the status is set but the message is not stored
SetErrorStatusOnly(m, msg) == [m EXCEPT !.processingStatus = "error"]

\* The catch block of handleFileUpload
SetError(m, msg) == [m EXCEPT !.processingStatus = "error", !.error = Some(msg)]

CatchProcessingError(id, msg) ==
  LET Failed(m) == SetError(m, msg)
      ms == MapById(materials, id, [mat \in Elems(materials) |-> Failed(mat)])
  IN /\ materials' = ms
     /\ localStorage' = SaveMaterials(localStorage, ms)
     /\ runs' = WithoutRun(id)

UploadFails(id, msg) ==
  /\ Awaiting(id, "upload")
  /\ CatchProcessingError(id, msg)
  /\ UNCHANGED << progressWrites, selectedMaterial, processingProgress, lessonLength,
                  isGeneratingQuestions, subscription, todayUploadCount, currentUser,
                  questionsRun, today, nextId, chatFailed, accepted, probe, authError, questionsOutcome, quizAnswers, revealedAnswers >>

\* Extraction done: the text is stored, generateLearningContent starts and
\* issues the language detection call.
ExtractionSucceeds(id, text) ==
  /\ Awaiting(id, "extract")
  /\ LET SetText(m) == [m EXCEPT !.extractedText = text]
         ms == MapById(materials, id, [mat \in Elems(materials) |-> SetText(mat)])
     IN /\ materials' = ms
        /\ localStorage' = SaveMaterials(localStorage, ms)
  /\ processingProgress' = 10
  /\ progressWrites' = <<20, 10>>
  /\ runs' = WithRun(id, Issue([runs[id] EXCEPT !.extractedText = text],
                               "detect", DetectPrompt(text)))
  /\ UNCHANGED << selectedMaterial, lessonLength, isGeneratingQuestions, subscription,
                  todayUploadCount, currentUser, questionsRun, today, nextId, chatFailed, accepted, probe, authError, questionsOutcome, quizAnswers, revealedAnswers >>

ExtractionFails(id, msg) ==
  /\ Awaiting(id, "extract")
  /\ CatchProcessingError(id, msg)
  /\ UNCHANGED << progressWrites, selectedMaterial, processingProgress, lessonLength,
                  isGeneratingQuestions, subscription, todayUploadCount, currentUser,
                  questionsRun, today, nextId, chatFailed, accepted, probe, authError, questionsOutcome, quizAnswers, revealedAnswers >>

(***************************************************************************)
(* generateLearningContent and the rest of handleFileUpload: one           *)
(* continuation per chat call                                              *)
(***************************************************************************)
\* A chat call of run id returns the completion text: the client's result
ChatResult(id, response) == mutationFn(runs[id].req, response)

\* The continuation sets the progress, issues the next call and suspends
PipelineStep(id, run, progress) ==
  /\ runs' = WithRun(id, run)
  /\ processingProgress' = progress
  /\ progressWrites' = <<progress>>
  /\ UNCHANGED << materials, selectedMaterial, lessonLength, isGeneratingQuestions,
                  subscription, todayUploadCount, currentUser, localStorage,
                  questionsRun, today, nextId, chatFailed, accepted, probe, authError, questionsOutcome, quizAnswers, revealedAnswers >>

DetectLanguageReturns(id, text) ==
  /\ Awaiting(id, "detect")
  /\ LET result == ChatResult(id, BackendOk(text))
         detectedLanguage == Trim(result.content)
         run == [runs[id] EXCEPT !.languageAnswer = result.content,
                                 !.detectedLanguage = detectedLanguage, !.returned = @ + 1]
     IN /\ result.ok
        /\ PipelineStep(id, Issue(run, "lessons",
                                  LessonsPrompt(run.extractedText, detectedLanguage,
                                                run.lessonLength)),
                        25)

LessonsReturn(id, text) ==
  /\ Awaiting(id, "lessons")
  /\ LET result == ChatResult(id, BackendOk(text))
         run == [runs[id] EXCEPT !.lessons = result.content, !.returned = @ + 1]
     IN /\ result.ok
        /\ PipelineStep(id, Issue(run, "quiz",
                                  QuizPrompt(run.extractedText, run.detectedLanguage)),
                        40)

QuizReturns(id, text) ==
  /\ Awaiting(id, "quiz")
  /\ LET result == ChatResult(id, BackendOk(text))
         run == [runs[id] EXCEPT !.quiz = result.content, !.returned = @ + 1]
     IN /\ result.ok
        /\ PipelineStep(id, Issue(run, "summary",
                                  SummaryPrompt(run.extractedText, run.detectedLanguage)),
                        60)

SummaryReturns(id, text) ==
  /\ Awaiting(id, "summary")
  /\ LET result == ChatResult(id, BackendOk(text))
         run == [runs[id] EXCEPT !.summary = result.content, !.returned = @ + 1]
     IN /\ result.ok
        /\ PipelineStep(id, Issue(run, "flashcards",
                                  FlashcardsPrompt(run.extractedText, run.detectedLanguage)),
                        80)

\* The value generateLearningContent returns
LearningContent(run) ==
  [ microLessons |-> ParseLessons(run.lessons),
    quizQuestions |-> ParseQuestions(run.quiz),
    summary |-> run.summary,
    flashcards |-> ParseFlashcards(run.flashcards),
    detectedLanguage |-> run.detectedLanguage ]

\* Last call of generateLearningContent: the responses are parsed, the
\* content is returned to handleFileUpload, which asks for the title.
FlashcardsReturn(id, text) ==
  /\ Awaiting(id, "flashcards")
  /\ LET result == ChatResult(id, BackendOk(text))
         got == [runs[id] EXCEPT !.flashcards = result.content, !.returned = @ + 1]
         content == LearningContent(got)
         run == [got EXCEPT !.content = Some(content)]
     IN /\ result.ok
        /\ PipelineStep(id, Issue(run, "title",
                                  TitlePrompt(run.extractedText, content.detectedLanguage)),
                        100)

TitleReturns(id, text) ==
  /\ Awaiting(id, "title")
  /\ LET result == ChatResult(id, BackendOk(text))
         run == [runs[id] EXCEPT !.suggestedTitle = Trim(result.content), !.returned = @ + 1]
     IN /\ result.ok
        /\ runs' = WithRun(id, Issue(run, "category",
                                     CategoryPrompt(run.extractedText,
                                                    Get(run.content).detectedLanguage)))
  /\ UNCHANGED << progressWrites, materials, selectedMaterial, processingProgress, lessonLength,
                  isGeneratingQuestions, subscription, todayUploadCount, currentUser,
                  localStorage, questionsRun, today, nextId, chatFailed, accepted, probe, authError, questionsOutcome, quizAnswers, revealedAnswers >>

\* Store detected language, suggested title, and category
SetMetadata(m, run, thematicCategory) ==
  [m EXCEPT !.detectedLanguage = Some(Get(run.content).detectedLanguage),
            !.suggestedTitle = Some(run.suggestedTitle),
            !.thematicCategory = Some(thematicCategory)]

\* Mutant: the content is stored but the status is not changed
SetContentOnly(m, content) == [m EXCEPT !.content = Some(content)]

\* Update material with generated content
SetCompleted(m, content) ==
  [m EXCEPT !.content = Some(content), !.processingStatus = "completed"]

\* setSelectedMaterial((prev) => prev?.id === materialId ? {...} : prev)
SelectCompleted(prev, id, content) ==
  IF IsSome(prev) /\ Get(prev).id = id
  THEN Some([Get(prev) EXCEPT !.content = Some(content), !.processingStatus = "completed"])
  ELSE prev

CategoryReturns(id, text) ==
  /\ Awaiting(id, "category")
  /\ LET result == ChatResult(id, BackendOk(text))
         run == runs[id]
         content == Get(run.content)
         Finish(m) == SetCompleted(SetMetadata(m, run, Trim(result.content)), content)
         ms == MapById(materials, id, [mat \in Elems(materials) |-> Finish(mat)])
     IN /\ result.ok
        /\ materials' = ms
        /\ localStorage' = SaveMaterials(localStorage, ms)
        /\ selectedMaterial' = SelectCompleted(selectedMaterial, id, content)
  /\ runs' = WithoutRun(id)
  /\ UNCHANGED << progressWrites, processingProgress, lessonLength, isGeneratingQuestions, subscription,
                  todayUploadCount, currentUser, questionsRun, today, nextId, chatFailed, accepted, probe, authError, questionsOutcome >>
  /\ ResetQuizState

\* Any chat call of the run is rejected by the client: the catch block runs
ChatFails(id, response) ==
  /\ id \in DOMAIN runs
  /\ runs[id].pc \in ChatStages
  /\ LET result == ChatResult(id, response)
     IN /\ ~result.ok
        /\ CatchProcessingError(id, result.message)
  /\ chatFailed' = chatFailed \cup {id}
  /\ UNCHANGED << progressWrites, selectedMaterial, processingProgress, lessonLength,
                  isGeneratingQuestions, subscription, todayUploadCount, currentUser,
                  questionsRun, today, nextId, accepted, probe, authError, questionsOutcome, quizAnswers, revealedAnswers >>

(***************************************************************************)
(* Library operations                                                      *)
(***************************************************************************)
\* onClick={() => setSelectedMaterial(material)} on a row of the library
SelectMaterial(id) ==
  /\ id \in Ids(materials)
  /\ selectedMaterial' = Some(Find(materials, id))
  /\ UNCHANGED << progressWrites, materials, processingProgress, lessonLength, isGeneratingQuestions,
                  subscription, todayUploadCount, currentUser, localStorage, runs,
                  questionsRun, today, nextId, chatFailed, accepted, probe, authError, questionsOutcome >>
  /\ ResetQuizState

deleteMaterial(id) ==
  /\ id \in Ids(materials)
  /\ LET ms == FilterOut(materials, id)
     IN /\ materials' = ms
        /\ localStorage' = SaveMaterials(localStorage, ms)
  /\ selectedMaterial' =
       IF IsSome(selectedMaterial) /\ Get(selectedMaterial).id = id
       THEN None ELSE selectedMaterial
  /\ UNCHANGED << progressWrites, processingProgress, lessonLength, isGeneratingQuestions, subscription,
                  todayUploadCount, currentUser, runs, questionsRun, today, nextId, chatFailed, accepted, probe, authError, questionsOutcome >>
  /\ ResetQuizState

renameMaterial(id, newName) ==
  /\ id \in Ids(materials)
  /\ LET SetName(m) == [m EXCEPT !.fileName = newName]
         ms == MapById(materials, id, [mat \in Elems(materials) |-> SetName(mat)])
     IN /\ materials' = ms
        /\ localStorage' = SaveMaterials(localStorage, ms)
        /\ selectedMaterial' =
             IF IsSome(selectedMaterial) /\ Get(selectedMaterial).id = id
             THEN Some(SetName(Get(selectedMaterial))) ELSE selectedMaterial
  /\ UNCHANGED << progressWrites, processingProgress, lessonLength, isGeneratingQuestions, subscription,
                  todayUploadCount, currentUser, runs, questionsRun, today, nextId, chatFailed, accepted, probe, authError, questionsOutcome >>
  /\ ResetQuizState

\* onValueChange of the lesson length select
SetLessonLength(length) ==
  /\ lessonLength' = length
  /\ UNCHANGED << progressWrites, materials, selectedMaterial, processingProgress, isGeneratingQuestions,
                  subscription, todayUploadCount, currentUser, localStorage, runs,
                  questionsRun, today, nextId, chatFailed, accepted, probe, authError, questionsOutcome, quizAnswers, revealedAnswers >>

(***************************************************************************)
(* generateNewQuestions                                                    *)
(***************************************************************************)
\* The button is rendered in the quiz tab of a selected material shown as
\* completed, and is disabled while questions are being generated.
NewQuestionsButtonEnabled ==
  /\ IsSome(selectedMaterial)
  /\ Get(selectedMaterial).processingStatus = "completed"
  /\ ~isGeneratingQuestions

\* !selectedMaterial?.extractedText || !selectedMaterial.detectedLanguage
NewQuestionsEarlyReturn(sel) ==
  IF sel.extractedText = <<>> THEN TRUE
  ELSE IF sel.detectedLanguage = None THEN TRUE
  ELSE Get(sel.detectedLanguage) = <<>>

GenerateNewQuestionsIgnored ==
  /\ NewQuestionsButtonEnabled
  /\ NewQuestionsEarlyReturn(Get(selectedMaterial))
  /\ UNCHANGED << progressWrites, materials, selectedMaterial, processingProgress, lessonLength,
                  isGeneratingQuestions, subscription, todayUploadCount, currentUser,
                  localStorage, runs, questionsRun, today, nextId, chatFailed, accepted, probe, authError, questionsOutcome, quizAnswers, revealedAnswers >>

GenerateNewQuestionsStarts ==
  /\ NewQuestionsButtonEnabled
  /\ LET sel == Get(selectedMaterial)
     IN /\ ~NewQuestionsEarlyReturn(sel)
        /\ questionsRun' = Some([ sel |-> sel,
                                  req |-> NewQuestionsPrompt(sel.extractedText,
                                                             Get(sel.detectedLanguage)) ])
  /\ isGeneratingQuestions' = TRUE
  /\ questionsOutcome' = None
  /\ UNCHANGED << progressWrites, materials, selectedMaterial, processingProgress, lessonLength,
                  subscription, todayUploadCount, currentUser, localStorage, runs,
                  today, nextId, chatFailed, accepted, probe, authError, quizAnswers, revealedAnswers >>

\* JSON.parse(quizResponse.content).questions || [], [] when parsing throws
ParseNewQuestions(text) ==
  LET quizData == JsonParse(text) IN
  IF IsSome(quizData) THEN OrEmpty(Get(quizData).questions) ELSE <<>>

\* Mutant: the content is rebuilt from the new questions alone
ReplaceQuestionsDropsRest(m, newQuestions) ==
  IF IsSome(m.content)
  THEN [m EXCEPT !.content = Some([ microLessons |-> <<>>, quizQuestions |-> newQuestions,
                                    summary |-> <<>>, flashcards |-> <<>>,
                                    detectedLanguage |-> Get(m.content).detectedLanguage ])]
  ELSE m

\* m.id === selectedMaterial.id && m.content ? {...m, content: {...}} : m
ReplaceQuestions(m, newQuestions) ==
  IF IsSome(m.content)
  THEN [m EXCEPT !.content = Some([Get(m.content) EXCEPT !.quizQuestions = newQuestions])]
  ELSE m

\* Mutant: the questions are replaced without the test newQuestions.length > 0
NewQuestionsReturnUnguarded(response) ==
  /\ IsSome(questionsRun)
  /\ LET run == Get(questionsRun)
         sel == run.sel
         result == mutationFn(run.req, response)
         newQuestions == IF result.ok THEN ParseNewQuestions(result.content) ELSE <<>>
         Replace(m) == ReplaceQuestions(m, newQuestions)
         ms == MapById(materials, sel.id, [mat \in Elems(materials) |-> Replace(mat)])
     IN IF result.ok
        THEN /\ materials' = ms
             /\ localStorage' = SaveMaterials(localStorage, ms)
             /\ selectedMaterial' =
                  IF IsSome(sel.content) THEN Some(Replace(sel)) ELSE selectedMaterial
             /\ quizAnswers' = NoAnswers
             /\ revealedAnswers' = {}
             /\ questionsOutcome' = Some("replaced")
        ELSE /\ UNCHANGED << materials, localStorage, selectedMaterial,
                             quizAnswers, revealedAnswers >>
             /\ questionsOutcome' = Some("kept")
  /\ questionsRun' = None
  /\ isGeneratingQuestions' = FALSE
  /\ UNCHANGED << progressWrites, processingProgress, lessonLength, subscription, todayUploadCount,
                  currentUser, runs, today, nextId, chatFailed, accepted, probe, authError >>

\* The completion of the chat call of generateNewQuestions, or its failure
NewQuestionsReturn(response) ==
  /\ IsSome(questionsRun)
  /\ LET run == Get(questionsRun)
         sel == run.sel
         result == mutationFn(run.req, response)
         newQuestions == IF result.ok THEN ParseNewQuestions(result.content) ELSE <<>>
         Replace(m) == ReplaceQuestions(m, newQuestions)
         ms == MapById(materials, sel.id, [mat \in Elems(materials) |-> Replace(mat)])
     IN IF result.ok /\ Len(newQuestions) > 0
        THEN /\ materials' = ms
             /\ localStorage' = SaveMaterials(localStorage, ms)
             /\ selectedMaterial' =
                  IF IsSome(sel.content) THEN Some(Replace(sel)) ELSE selectedMaterial
             /\ quizAnswers' = NoAnswers
             /\ revealedAnswers' = {}
             /\ questionsOutcome' = Some("replaced")
        ELSE /\ UNCHANGED << materials, localStorage, selectedMaterial,
                             quizAnswers, revealedAnswers >>
             /\ questionsOutcome' = Some("kept")
  /\ questionsRun' = None
  /\ isGeneratingQuestions' = FALSE
  /\ UNCHANGED << progressWrites, processingProgress, lessonLength, subscription, todayUploadCount,
                  currentUser, runs, today, nextId, chatFailed, accepted, probe, authError >>

(***************************************************************************)
(* The quiz of the selected material                                       *)
(*                                                                         *)
(* Questions are numbered from 1 here (idx + 1), options from 0 as in the  *)
(* source.                                                                 *)
(***************************************************************************)
\* The quiz tab is rendered for a selected material shown as completed.
QuizTabShown ==
  /\ IsSome(selectedMaterial)
  /\ Get(selectedMaterial).processingStatus = "completed"

\* selectedMaterial.content?.quizQuestions, as rendered
ShownQuestions ==
  IF IsSome(Get(selectedMaterial).content)
  THEN Get(Get(selectedMaterial).content).quizQuestions ELSE <<>>

\* onClick of an option of a question that is not revealed
AnswerQuestion(idx, optIdx) ==
  /\ QuizTabShown
  /\ idx \in 1..Len(ShownQuestions)
  /\ optIdx \in 0..(Len(ShownQuestions[idx].options) - 1)
  /\ idx \notin revealedAnswers
  /\ quizAnswers' = [ i \in DOMAIN quizAnswers \cup {idx} |->
                        IF i = idx THEN optIdx ELSE quizAnswers[i] ]
  /\ UNCHANGED << progressWrites, materials, selectedMaterial, processingProgress, lessonLength,
                  isGeneratingQuestions, subscription, todayUploadCount, currentUser,
                  localStorage, runs, questionsRun, today, nextId, chatFailed, accepted,
                  probe, authError, questionsOutcome, revealedAnswers >>

\* "Check Answer" of an answered question that is not revealed
RevealAnswer(idx) ==
  /\ QuizTabShown
  /\ idx \in 1..Len(ShownQuestions)
  /\ idx \in DOMAIN quizAnswers
  /\ idx \notin revealedAnswers
  /\ revealedAnswers' = revealedAnswers \cup {idx}
  /\ UNCHANGED << progressWrites, materials, selectedMaterial, processingProgress, lessonLength,
                  isGeneratingQuestions, subscription, todayUploadCount, currentUser,
                  localStorage, runs, questionsRun, today, nextId, chatFailed, accepted,
                  probe, authError, questionsOutcome, quizAnswers >>

\* The forEach of saveQuizResult that counts the correct answers
CountCorrect(questions, answers) ==
  Cardinality({ i \in 1..Len(questions) :
                  i \in DOMAIN answers /\ answers[i] = questions[i].correctAnswer })

\* newResult of saveQuizResult
NewResult(questions, answers) ==
  [ timestamp |-> today, totalQuestions |-> Len(questions),
    correctAnswers |-> CountCorrect(questions, answers),
    percentage |-> TimesHundred(CountCorrect(questions, answers), Len(questions)) ]

\* Mutant: the new result is put in front of the history
PrependResult(m, newResult) == [m EXCEPT !.quizResults = <<newResult>> \o @]

\* { ...m, quizResults: [...(m.quizResults || []), newResult] }
AppendResult(m, newResult) == [m EXCEPT !.quizResults = Append(@, newResult)]

\* "Check All Answers", enabled once a question is answered: every question
\* is revealed and saveQuizResult records the attempt.
checkAllAnswers ==
  /\ QuizTabShown
  /\ DOMAIN quizAnswers # {}
  /\ IsSome(Get(selectedMaterial).content)
  /\ LET sel == Get(selectedMaterial)
         newResult == NewResult(ShownQuestions, quizAnswers)
         Saved(m) == AppendResult(m, newResult)
         ms == MapById(materials, sel.id, [mat \in Elems(materials) |-> Saved(mat)])
     IN /\ materials' = ms
        /\ localStorage' = SaveMaterials(localStorage, ms)
        /\ selectedMaterial' = Some(Saved(sel))
  /\ revealedAnswers' = 1..Len(ShownQuestions)
  /\ UNCHANGED << progressWrites, processingProgress, lessonLength, isGeneratingQuestions,
                  subscription, todayUploadCount, currentUser, runs, questionsRun, today,
                  nextId, chatFailed, accepted, probe, authError, questionsOutcome, quizAnswers >>

(***************************************************************************)
(* Accounts (AuthDialog.tsx) and the session's premium status              *)
(***************************************************************************)
EmailInputs == Emails \cup {"not an email"}
GoodPassword == <<"s", "e", "c", "r", "e", "t">>
PasswordInputs == { GoodPassword, <<"p", "w">> }

\* /^[^\s@]+@[^\s@]+\.[^\s@]+$/ on the addresses the model enters
validateEmail(email) == email \in Emails \cup AccountEmails

validatePassword(password) == Len(password) >= MinPasswordLength

WithUser(users, email, entry) ==
  [ e \in DOMAIN users \cup {email} |-> IF e = email THEN entry ELSE users[e] ]

\* handleAuthSuccess, with the effect that saves the subscription status
handleAuthSuccess(userData, storage) ==
  /\ currentUser' = Some(userData)
  /\ subscription' = [isPremium |-> userData.isPremium]
  /\ localStorage' = SaveSubscription([storage EXCEPT !.currentUserEmail = Some(userData.email)],
                                      [isPremium |-> userData.isPremium])

AuthUnchanged ==
  UNCHANGED << materials, selectedMaterial, processingProgress, lessonLength,
               isGeneratingQuestions, todayUploadCount, runs, questionsRun, today,
               nextId, chatFailed, accepted, probe, questionsOutcome, quizAnswers, revealedAnswers >>

\* Mutant: the check for an existing account is missing
RegisterErrorNoExistingCheck(email, password, confirmPassword, users) ==
  IF ~validateEmail(email) THEN "invalid email"
  ELSE IF ~validatePassword(password) THEN "password too short"
  ELSE IF password # confirmPassword THEN "passwords differ"
  ELSE ""

\* The message of the first check of handleRegister that throws, "" if none
RegisterError(email, password, confirmPassword, users) ==
  IF ~validateEmail(email) THEN "invalid email"
  ELSE IF ~validatePassword(password) THEN "password too short"
  ELSE IF password # confirmPassword THEN "passwords differ"
  ELSE IF email \in DOMAIN users THEN "account exists"
  ELSE ""

handleRegister(email, password, confirmPassword) ==
  /\ currentUser = None
  /\ LET error == RegisterError(email, password, confirmPassword, localStorage.users)
         userData == [email |-> email, isPremium |-> FALSE]
         users == WithUser(localStorage.users, email,
                           [password |-> password, userData |-> userData])
     IN /\ authError' = error
        /\ IF error = ""
           THEN handleAuthSuccess(userData, [localStorage EXCEPT !.users = users])
           ELSE UNCHANGED << currentUser, subscription, localStorage >>
  /\ UNCHANGED progressWrites
  /\ AuthUnchanged

\* The message of the first check of handleLogin that throws, "" if none
LoginError(email, password, users) ==
  IF ~validateEmail(email) THEN "invalid email"
  ELSE IF ~validatePassword(password) THEN "password too short"
  ELSE IF email \notin DOMAIN users THEN "no account"
  ELSE IF users[email].password # password THEN "wrong password"
  ELSE ""

handleLogin(email, password) ==
  /\ currentUser = None
  /\ LET error == LoginError(email, password, localStorage.users)
     IN /\ authError' = error
        /\ IF error = ""
           THEN handleAuthSuccess(localStorage.users[email].userData, localStorage)
           ELSE UNCHANGED << currentUser, subscription, localStorage >>
  /\ UNCHANGED progressWrites
  /\ AuthUnchanged

\* Mutant: the subscription status of the session is not reset
handleLogoutKeepsSubscription ==
  /\ IsSome(currentUser)
  /\ currentUser' = None
  /\ localStorage' = [localStorage EXCEPT !.currentUserEmail = None]
  /\ UNCHANGED << progressWrites, authError, subscription >>
  /\ AuthUnchanged

handleLogout ==
  /\ IsSome(currentUser)
  /\ currentUser' = None
  /\ subscription' = [isPremium |-> FALSE]
  /\ localStorage' = SaveSubscription([localStorage EXCEPT !.currentUserEmail = None],
                                      [isPremium |-> FALSE])
  /\ UNCHANGED << progressWrites, authError >>
  /\ AuthUnchanged

updateUserPremiumStatus(users, email, isPremium) ==
  IF email \in DOMAIN users
  THEN [users EXCEPT ![email].userData.isPremium = isPremium]
  ELSE users

handlePremiumUpgrade ==
  /\ IF IsSome(currentUser)
     THEN LET user == Get(currentUser)
              users == updateUserPremiumStatus(localStorage.users, user.email, TRUE)
          IN /\ currentUser' = Some([user EXCEPT !.isPremium = TRUE])
             /\ subscription' = [isPremium |-> TRUE]
             /\ localStorage' = SaveSubscription([localStorage EXCEPT !.users = users],
                                                 [isPremium |-> TRUE])
     ELSE UNCHANGED << currentUser, subscription, localStorage >>
  /\ UNCHANGED << progressWrites, authError >>
  /\ AuthUnchanged

\* getCurrentUser
getCurrentUser(storage) ==
  IF storage.currentUserEmail = None THEN None
  ELSE IF Get(storage.currentUserEmail) \in DOMAIN storage.users
    THEN Some(storage.users[Get(storage.currentUserEmail)].userData)
    ELSE None

(***************************************************************************)
(* Page load: every state of the component starts over and the mount       *)
(* effects read localStorage.  Suspended handlers of the old page are gone.*)
(***************************************************************************)
LoadedSubscription(storage, user) ==
  IF IsSome(user) THEN [isPremium |-> Get(user).isPremium]
  ELSE IF IsSome(storage.subscription) THEN Get(storage.subscription)
  ELSE [isPremium |-> FALSE]

LoadedMaterials(storage) ==
  IF IsSome(storage.materials) THEN Rehydrate(Get(storage.materials)) ELSE <<>>

LoadedUploadCount(storage) ==
  IF IsSome(storage.limits) /\ Get(storage.limits).date = today
  THEN Get(storage.limits).count
  ELSE 0

\* Reset counter for new day
LoadedLimits(storage) ==
  IF IsSome(storage.limits) /\ Get(storage.limits).date # today
  THEN [storage EXCEPT !.limits = Some([date |-> today, count |-> 0])]
  ELSE storage

Reload ==
  /\ LET user == getCurrentUser(localStorage)
         sub == LoadedSubscription(localStorage, user)
         ms == LoadedMaterials(localStorage)
     IN /\ currentUser' = user
        /\ subscription' = sub
        /\ materials' = ms
        /\ todayUploadCount' = LoadedUploadCount(localStorage)
        /\ localStorage' = SaveMaterials(SaveSubscription(LoadedLimits(localStorage), sub), ms)
  /\ selectedMaterial' = None
  /\ processingProgress' = 0
  /\ lessonLength' = "normal"
  /\ isGeneratingQuestions' = FALSE
  /\ runs' = [i \in {} |-> 0]
  /\ questionsRun' = None
  /\ progressWrites' = <<>>
  /\ chatFailed' = {}
  /\ UNCHANGED << today, nextId, accepted, probe >>
  /\ questionsOutcome' = None
  /\ authError' = ""
  /\ quizAnswers' = NoAnswers
  /\ revealedAnswers' = {}

\* Midnight passes
DayChange ==
  /\ today < MaxDay
  /\ today' = today + 1
  /\ accepted' = [all |-> 0, free |-> 0]
  /\ UNCHANGED << progressWrites, materials, selectedMaterial, processingProgress, lessonLength,
                  isGeneratingQuestions, subscription, todayUploadCount, currentUser,
                  localStorage, runs, questionsRun, nextId, chatFailed, probe, authError, questionsOutcome, quizAnswers, revealedAnswers >>

(***************************************************************************)
(* Specifications                                                          *)
(*                                                                         *)
(* Spec: the processing of uploaded documents by a free session on one     *)
(* day: uploads, the pipeline with every outcome of every call, the        *)
(* library operations, new questions and page loads.                       *)
(***************************************************************************)
MaterialIds == 1..MaxIds

NewQuestionsResponses == FailureResponses \cup { BackendOk(t) : t \in NewQuestionsAnswers }

UploadStep ==
  \/ \E file \in Files : HandleFileUploadInvalidFormat(file)
  \/ /\ nextId <= MaxIds
     /\ Cardinality(DOMAIN runs) < MaxInFlight
     /\ \E file \in Files : HandleFileUploadAccepted(file)

PipelineStepOf(id) ==
  \/ UploadSucceeds(id)
  \/ \E msg \in UploadErrors : UploadFails(id, msg)
  \/ \E text \in ExtractedTexts : ExtractionSucceeds(id, text)
  \/ \E msg \in ExtractErrors : ExtractionFails(id, msg)
  \/ \E text \in LanguageAnswers : DetectLanguageReturns(id, text)
  \/ \E text \in LessonsAnswers : LessonsReturn(id, text)
  \/ \E text \in QuizAnswers : QuizReturns(id, text)
  \/ \E text \in SummaryAnswers : SummaryReturns(id, text)
  \/ \E text \in FlashcardsAnswers : FlashcardsReturn(id, text)
  \/ \E text \in TitleAnswers : TitleReturns(id, text)
  \/ \E text \in CategoryAnswers : CategoryReturns(id, text)
  \/ \E response \in FailureResponses : ChatFails(id, response)

LibraryStep ==
  \/ \E id \in MaterialIds : SelectMaterial(id)
  \/ \E id \in MaterialIds : deleteMaterial(id)
  \/ \E id \in MaterialIds, newName \in NewNames : renameMaterial(id, newName)

NewQuestionsStep ==
  \/ GenerateNewQuestionsIgnored
  \/ GenerateNewQuestionsStarts
  \/ \E response \in NewQuestionsResponses : NewQuestionsReturn(response)

Next ==
  \/ UploadStep
  \/ \E id \in MaterialIds : PipelineStepOf(id)
  \/ LibraryStep
  \/ NewQuestionsStep
  \/ Reload

Spec == Init /\ [][Next]_vars

(***************************************************************************)
(* SpecGate: the upload gate over several days, for free and premium       *)
(* sessions, with page loads.  Documents are processed one at a time and   *)
(* every call but the upload succeeds with one fixed answer.               *)
(***************************************************************************)
UploadIds == 1..MaxUploads

GateUploadStep ==
  \/ HandleFileUploadRejected
  \/ \E file \in Files : HandleFileUploadInvalidFormat(file)
  \/ /\ nextId <= MaxUploads
     /\ DOMAIN runs = {}
     /\ \E file \in Files : HandleFileUploadAccepted(file)

GatePipelineStepOf(id) ==
  \/ UploadSucceeds(id)
  \/ \E msg \in UploadErrors : UploadFails(id, msg)
  \/ ExtractionSucceeds(id, <<"x", "y">>)
  \/ DetectLanguageReturns(id, <<" ", "E", "N", " ">>)
  \/ LessonsReturn(id, <<"{lessons:[A,B]}">>)
  \/ QuizReturns(id, <<"{questions:[A]}">>)
  \/ SummaryReturns(id, <<"summary">>)
  \/ FlashcardsReturn(id, <<"{flashcards:[A]}">>)
  \/ TitleReturns(id, <<"A", " ", "T">>)
  \/ CategoryReturns(id, <<"Science">>)

AccountStep ==
  \/ \E email \in EmailInputs, password \in PasswordInputs, confirm \in PasswordInputs :
       handleRegister(email, password, confirm)
  \/ \E email \in EmailInputs, password \in PasswordInputs : handleLogin(email, password)
  \/ handleLogout
  \/ handlePremiumUpgrade

NextGate ==
  \/ GateUploadStep
  \/ \E id \in UploadIds : GatePipelineStepOf(id)
  \/ AccountStep
  \/ Reload
  \/ DayChange

SpecGate == Init /\ [][NextGate]_vars

(***************************************************************************)
(* SpecRun: documents processed one after the other in one session, with   *)
(* several answers to each call, every failure, the lesson length          *)
(* setting, selection, deletion, new questions and page loads.             *)
(***************************************************************************)
RunIds == 1..MaxRunIds

RunLanguageAnswers ==
  { <<" ", "E", "N", " ">>, <<"D", "E">>, <<"\n", "f", "r", " ", "C", "A", "\n">>, <<" ">> }
RunLessonsAnswers == { <<"{lessons:[A,B]}">>, <<"{}">>, <<"not json">> }
RunQuizAnswers == { <<"{questions:[A]}">>, <<"{questions:[A,C]}">>, <<"not json">> }
RunFlashcardsAnswers == { <<"{flashcards:[A]}">>, <<"{}">> }
RunNewQuestionsResponses ==
  NewQuestionsResponses \cup { BackendOk(<<"{questions:[A,C]}">>) }

RunUploadStep ==
  /\ nextId <= MaxRunIds
  /\ DOMAIN runs = {}
  /\ \E file \in Files : HandleFileUploadAccepted(file)

RunPipelineStepOf(id) ==
  \/ UploadSucceeds(id)
  \/ \E msg \in UploadErrors : UploadFails(id, msg)
  \/ \E text \in ExtractedTexts : ExtractionSucceeds(id, text)
  \/ \E msg \in ExtractErrors : ExtractionFails(id, msg)
  \/ \E text \in RunLanguageAnswers : DetectLanguageReturns(id, text)
  \/ \E text \in RunLessonsAnswers : LessonsReturn(id, text)
  \/ \E text \in RunQuizAnswers : QuizReturns(id, text)
  \/ \E text \in SummaryAnswers : SummaryReturns(id, text)
  \/ \E text \in RunFlashcardsAnswers : FlashcardsReturn(id, text)
  \/ \E text \in TitleAnswers : TitleReturns(id, text)
  \/ \E text \in CategoryAnswers : CategoryReturns(id, text)
  \/ \E response \in FailureResponses : ChatFails(id, response)

RunLibraryStep ==
  \/ \E id \in RunIds : SelectMaterial(id)
  \/ \E id \in RunIds : deleteMaterial(id)
  \/ \E length \in LessonLengths : SetLessonLength(length)

RunNewQuestionsStep ==
  \/ GenerateNewQuestionsIgnored
  \/ GenerateNewQuestionsStarts
  \/ \E response \in RunNewQuestionsResponses : NewQuestionsReturn(response)

NextRun ==
  \/ RunUploadStep
  \/ \E id \in RunIds : RunPipelineStepOf(id)
  \/ RunLibraryStep
  \/ RunNewQuestionsStep
  \/ Reload

SpecRun == Init /\ [][NextRun]_vars

\* SpecRun where every upload, text extraction and chat call a suspended
\* invocation waits for eventually returns or fails.
SpecRunFair == SpecRun /\ \A id \in RunIds : WF_vars(RunPipelineStepOf(id))

(***************************************************************************)
(* SpecQuiz: a session in which documents are processed one after the      *)
(* other without failures, and are selected, renamed and deleted while     *)
(* their quizzes are answered, checked and regenerated, with page loads.   *)
(***************************************************************************)
QuizIds == 1..MaxQuizIds

QuizNewQuestionsResponses ==
  { BackendError, BackendOk(<<"{questions:[A]}">>), BackendOk(<<"{questions:[]}">>),
    BackendOk(<<"{}">>), BackendOk(<<"not json">>) }

QuizPipelineStepOf(id) ==
  \/ UploadSucceeds(id)
  \/ ExtractionSucceeds(id, <<"t">>)
  \/ DetectLanguageReturns(id, <<"E", "N">>)
  \/ LessonsReturn(id, <<"{lessons:[A,B]}">>)
  \/ \E text \in { <<"{questions:[B,A]}">>, <<"not json">> } : QuizReturns(id, text)
  \/ SummaryReturns(id, <<"s">>)
  \/ FlashcardsReturn(id, <<"{flashcards:[A]}">>)
  \/ TitleReturns(id, <<"T">>)
  \/ CategoryReturns(id, <<"Science">>)

QuizStep ==
  \/ \E idx \in 1..2, optIdx \in {0, 3} : AnswerQuestion(idx, optIdx)
  \/ \E idx \in 1..2 : RevealAnswer(idx)
  \/ /\ \A id \in Ids(materials) : Len(Find(materials, id).quizResults) < MaxAttempts
     /\ IsSome(selectedMaterial) => Len(Get(selectedMaterial).quizResults) < MaxAttempts
     /\ checkAllAnswers

NextQuiz ==
  \/ /\ nextId <= MaxQuizIds
     /\ DOMAIN runs = {}
     /\ \E file \in Files : HandleFileUploadAccepted(file)
  \/ \E id \in QuizIds : QuizPipelineStepOf(id)
  \/ \E id \in QuizIds : SelectMaterial(id)
  \/ \E id \in QuizIds : deleteMaterial(id)
  \/ \E id \in QuizIds, newName \in NewNames : renameMaterial(id, newName)
  \/ QuizStep
  \/ GenerateNewQuestionsIgnored
  \/ GenerateNewQuestionsStarts
  \/ \E response \in QuizNewQuestionsResponses : NewQuestionsReturn(response)
  \/ Reload

SpecQuiz == Init /\ [][NextQuiz]_vars

(***************************************************************************)
(* SpecAccount: accounts from an empty local storage: two addresses and a  *)
(* malformed one, two valid passwords and a short one, with logouts,       *)
(* premium upgrades and page loads.                                        *)
(***************************************************************************)
OtherPassword == <<"p", "a", "s", "s", "w", "d">>
AccountPasswords == { GoodPassword, OtherPassword, <<"p", "w">> }

NextAccount ==
  \/ \E email \in AccountEmails \cup {"not an email"},
        password \in AccountPasswords, confirm \in AccountPasswords :
       handleRegister(email, password, confirm)
  \/ \E email \in AccountEmails \cup {"not an email"}, password \in AccountPasswords :
       handleLogin(email, password)
  \/ handleLogout
  \/ handlePremiumUpgrade
  \/ Reload

SpecAccount == Init /\ [][NextAccount]_vars

(***************************************************************************)
(* SpecPrefix: the prompts of one pipeline run and of a new-questions      *)
(* request, built for two extracted texts with the same language and       *)
(* lesson length.  The texts are as long as the longest prompt prefix plus *)
(* one character, or short, and differ in at most one place.               *)
(***************************************************************************)
\* A text of n characters "x", with "y" at position k (k = 0: nowhere)
TextWith(n, k) == [ i \in 1..n |-> IF i = k THEN "y" ELSE "x" ]

PrefixTexts ==
  { TextWith(ContentPrefixLen + 1, k) :
      k \in { 0, DetectPrefixLen, DetectPrefixLen + 1, TitlePrefixLen + 1,
              ContentPrefixLen, ContentPrefixLen + 1 } }
    \cup { <<>>, TextWith(3, 0), TextWith(3, 3) }

\* The prompts of the seven calls of a run, in the order they are sent, and
\* of a new-questions request for the material
RunPrompts(text, language, length) ==
  << DetectPrompt(text), LessonsPrompt(text, language, length), QuizPrompt(text, language),
     SummaryPrompt(text, language), FlashcardsPrompt(text, language),
     TitlePrompt(text, language), CategoryPrompt(text, language),
     NewQuestionsPrompt(text, language) >>

InitPrefix ==
  /\ InitApp
  /\ probe \in { [ textA |-> a, textB |-> b, language |-> <<"E", "N">>, length |-> length,
                    promptsA |-> None, promptsB |-> None ] :
                  a \in PrefixTexts, b \in PrefixTexts, length \in LessonLengths }

BuildPrompts ==
  /\ probe.promptsA = None
  /\ probe' = [probe EXCEPT
                 !.promptsA = Some(RunPrompts(probe.textA, probe.language, probe.length)),
                 !.promptsB = Some(RunPrompts(probe.textB, probe.language, probe.length))]
  /\ UNCHANGED appVars

NextPrefix == BuildPrompts

SpecPrefix == InitPrefix /\ [][NextPrefix]_vars

(***************************************************************************)
(* SpecParser: the parsing of the lessons, quiz and flashcards completions *)
(* at the end of generateLearningContent, for every combination of the     *)
(* completion texts below.                                                 *)
(***************************************************************************)
CompletionTexts ==
  { <<"{lessons:[A,B]}">>, <<"{questions:[A]}">>, <<"{questions:[B,A]}">>,
    <<"{questions:[]}">>, <<"{flashcards:[A]}">>, <<"{}">>, <<"not json">>,
    <<"Here", " ", "are", " ", "the", " ", "lessons">> }

InitParser ==
  /\ InitApp
  /\ probe \in { [ lessons |-> lessons, quiz |-> quiz, summary |-> <<"summary">>,
                    flashcards |-> flashcards, detectedLanguage |-> <<"E", "N">>,
                    content |-> None ] :
                  lessons \in CompletionTexts, quiz \in CompletionTexts,
                  flashcards \in CompletionTexts }

\* Parse responses, and the value generateLearningContent returns
ParseResponses ==
  /\ probe.content = None
  /\ probe' = [probe EXCEPT !.content = Some(LearningContent(probe))]
  /\ UNCHANGED appVars

NextParser == ParseResponses

SpecParser == InitParser /\ [][NextParser]_vars

(***************************************************************************)
(* SpecClient: one invocation of the chat-completion client on its own,    *)
(* for every message list and every backend response below.                *)
(***************************************************************************)
FinishReasons == {"stop", "length", "function_call", "content_filter", "null"}

ChatMessageLists ==
  { <<>>,
    << Message("user", <<"hi">>) >>,
    << Message("assistant", <<"a">>) >>,
    << Message("system", <<"s">>), Message("user", <<"hi">>) >>,
    << Message("", <<"hi">>) >>,
    << Message("user", <<>>) >>,
    << Message("tool", <<"hi">>) >>,
    << Message("user", <<"hi">>), Message("tool", <<"x">>) >>,
    << Message("user", <<"hi">>), Message("system", <<>>) >> }

ClientResponses ==
  FailureResponses
    \cup { BackendNoUsage(<<"ok">>) }
    \cup { BackendFinish(<<"ok">>, finish) : finish \in FinishReasons \cup {"tool_calls"} }

InitClient ==
  /\ InitApp
  /\ probe \in { [ messages |-> messages, response |-> response,
                    result |-> None, requests |-> 0 ] :
                  messages \in ChatMessageLists, response \in ClientResponses }

\* chatMutation.mutateAsync({ messages }) against a backend that answers response
InvokeChat ==
  /\ probe.result = None
  /\ probe' = [probe EXCEPT !.result = Some(mutationFn(probe.messages, probe.response)),
                            !.requests = BackendRequests(probe.messages)]
  /\ UNCHANGED appVars

NextClient == InvokeChat

SpecClient == InitClient /\ [][NextClient]_vars

(***************************************************************************)
(* getSortedMaterials and SpecSort: the sorted view computed once, and     *)
(* once more from its own result, for every collection of up to            *)
(* MaxSortLen materials with equal and different names, categories and     *)
(* upload times, and every sort key.                                       *)
(***************************************************************************)
SortKeys == {"date", "theme", "name"}

\* The strings compared here, in the order of localeCompare
Collation == << "", "History", "notes.txt", "Other", "renamed.txt", "Science" >>

\* a.localeCompare(b): negative, zero or positive
localeCompare(a, b) ==
  (CHOOSE i \in 1..Len(Collation) : Collation[i] = a)
    - (CHOOSE i \in 1..Len(Collation) : Collation[i] = b)

\* a.thematicCategory || "Other"
CategoryOrOther(m) ==
  IF IsSome(m.thematicCategory) /\ Get(m.thematicCategory) # "" THEN Get(m.thematicCategory)
  ELSE "Other"

\* Mutant: the theme comparison without its tie-break
CompareThemeOnly(a, b, key) ==
  CASE key = "theme" -> localeCompare(CategoryOrOther(a), CategoryOrOther(b))
    [] key = "name" -> localeCompare(a.fileName, b.fileName)
    [] OTHER -> b.uploadedAt - a.uploadedAt

\* The comparison function of each case of the switch
Compare(a, b, key) ==
  CASE key = "theme" ->
         IF CategoryOrOther(a) # CategoryOrOther(b)
         THEN localeCompare(CategoryOrOther(a), CategoryOrOther(b))
         ELSE b.uploadedAt - a.uploadedAt
    [] key = "name" -> localeCompare(a.fileName, b.fileName)
    [] OTHER -> b.uploadedAt - a.uploadedAt

\* Mutant: an element is placed before the elements it compares equal to
RECURSIVE InsertBeforeEqual(_, _, _)
InsertBeforeEqual(sorted, x, key) ==
  IF sorted = <<>> THEN <<x>>
  ELSE IF Compare(sorted[Len(sorted)], x, key) >= 0
       THEN Append(InsertBeforeEqual(SubSeq(sorted, 1, Len(sorted) - 1), x, key),
                   sorted[Len(sorted)])
       ELSE Append(sorted, x)

\* Array.prototype.sort is stable: an element goes after the elements that
\* do not compare greater than it
RECURSIVE InsertSorted(_, _, _)
InsertSorted(sorted, x, key) ==
  IF sorted = <<>> THEN <<x>>
  ELSE IF Compare(sorted[Len(sorted)], x, key) > 0
       THEN Append(InsertSorted(SubSeq(sorted, 1, Len(sorted) - 1), x, key),
                   sorted[Len(sorted)])
       ELSE Append(sorted, x)

\* array.sort(compare): the array after the call, which is also its result
RECURSIVE ArraySort(_, _)
ArraySort(array, key) ==
  IF array = <<>> THEN <<>>
  ELSE InsertSorted(ArraySort(SubSeq(array, 1, Len(array) - 1), key), array[Len(array)], key)

\* Mutant: the state array itself is sorted
getSortedMaterialsInPlace(ms, key) ==
  [ materials |-> ArraySort(ms, key), view |-> ArraySort(ms, key) ]

\* getSortedMaterials with materials = ms and sortBy = key: the state array
\* after the call, and the array returned. sort is applied to a copy.
getSortedMaterials(ms, key) ==
  [ materials |-> ms, view |-> ArraySort(ms, key) ]

\* The material at a place of the store, with what the comparisons read
SortInput(id, name, category, uploadedAt) ==
  [ NewMaterial(id, [name |-> name, valid |-> TRUE]) EXCEPT
      !.thematicCategory = category, !.uploadedAt = uploadedAt ]

SortAttributes ==
  {"notes.txt", "renamed.txt"} \X {None, Some(""), Some("History"), Some("Science")} \X (1..2)

\* The collection of n materials with the attributes a[1], ..., a[n]
SortCollection(n, a) == [ id \in 1..n |-> SortInput(id, a[id][1], a[id][2], a[id][3]) ]

InitSort ==
  /\ InitApp
  /\ \E n \in 0..MaxSortLen : \E a \in [1..n -> SortAttributes] : \E key \in SortKeys :
       probe = [ stored |-> SortCollection(n, a), sortBy |-> key,
                 materials |-> SortCollection(n, a), view |-> None, again |-> None ]

\* One render computes the view; the view is then sorted once more.
ComputeSortedView ==
  /\ probe.view = None
  /\ LET first == getSortedMaterials(probe.materials, probe.sortBy)
         second == getSortedMaterials(first.view, probe.sortBy)
     IN probe' = [probe EXCEPT !.materials = first.materials,
                               !.view = Some(first.view),
                               !.again = Some(second.view)]
  /\ UNCHANGED appVars

NextSort == ComputeSortedView

SpecSort == InitSort /\ [][NextSort]_vars

(***************************************************************************)
(* Properties                                                              *)
(***************************************************************************)
StatusOf(ms, id) == Find(ms, id).processingStatus

\* Every change of a material's status in a step is one of the allowed pairs
StatusSteps(allowed) ==
  \A id \in Ids(materials) \cap Ids(materials') :
    \/ StatusOf(materials', id) = StatusOf(materials, id)
    \/ <<StatusOf(materials, id), StatusOf(materials', id)>> \in allowed

ClaimedStatusChanges ==
  { <<"pending", "processing">>, <<"processing", "completed">>, <<"processing", "error">> }

\* C1 as stated: a material's processingStatus only changes pending ->
\* processing, processing -> completed or processing -> error.
C1_StatusLifecycleAsClaimed == [][StatusSteps(ClaimedStatusChanges)]_vars

\* C1 amended: a material's processingStatus only changes pending -> processing,
\* pending -> error (the upload step failed), processing -> completed or
\* processing -> error; a completed or error material never changes status.
C1_StatusLifecycle ==
  [][StatusSteps(ClaimedStatusChanges \cup { <<"pending", "error">> })]_vars

\* A material whose upload failed: it went from pending to error
C1_Witness ==
  \E i \in 1..Len(materials) :
    materials[i].processingStatus = "error" /\ materials[i].fileUrl = ""

IsPrefix(s, t) == Len(s) <= Len(t) /\ s = SubSeq(t, 1, Len(s))

ClaimedOrder == <<"detect", "title", "category", "lessons", "quiz", "summary", "flashcards">>
CodeOrder == <<"detect", "lessons", "quiz", "summary", "flashcards", "title", "category">>

\* The calls a run has issued follow the order, one call outstanding at a
\* time: every earlier call has returned when the next is issued.
IssuedInOrder(order) ==
  \A id \in DOMAIN runs :
    /\ IsPrefix(runs[id].issued, order)
    /\ runs[id].pc \in ChatStages =>
         /\ runs[id].issued # <<>>
         /\ runs[id].pc = runs[id].issued[Len(runs[id].issued)]
         /\ runs[id].returned = Len(runs[id].issued) - 1

\* C2 as stated: the chat calls of a run are issued in the order detect
\* language, title, category, lessons, quiz, summary, flashcards.
C2_CallOrderAsClaimed == IssuedInOrder(ClaimedOrder)

\* C2 amended: the chat calls of a run are issued in the order detect language,
\* lessons, quiz, summary, flashcards, title, category, each one after every
\* earlier call has returned.
C2_CallOrder == IssuedInOrder(CodeOrder)

\* A run that has issued all seven calls
C2_Witness == \E id \in DOMAIN runs : runs[id].issued = CodeOrder

\* C3: after a chat call of a run fails the run issues no further call (it
\* has no continuation left), and its material, while in the store, has
\* status error, a non-empty error message and no content.
C3_ChatFailureAborts ==
  \A id \in chatFailed :
    /\ id \notin DOMAIN runs
    /\ id \in Ids(materials) =>
         LET m == Find(materials, id)
         IN /\ m.processingStatus = "error"
            /\ IsSome(m.error)
            /\ Get(m.error) # ""
            /\ m.content = None

\* A material in the store whose run had a chat call fail
C3_Witness == \E id \in chatFailed : id \in Ids(materials)

NonDecreasing(s) == \A i \in 1..(Len(s) - 1) : s[i] <= s[i + 1]

\* C4 as stated: while one document is being processed, the values the
\* progress indicator is set to after the reset at acceptance never decrease
\* and stay within 0..100.
C4_ProgressMonotone ==
  [][ ( /\ Cardinality(DOMAIN runs) = 1
        /\ nextId' = nextId
        /\ progressWrites' # <<>>
        /\ <<processingProgress', progressWrites'>> # <<processingProgress, progressWrites>> )
      => /\ NonDecreasing(<<processingProgress>> \o progressWrites')
         /\ \A i \in 1..Len(progressWrites') : progressWrites'[i] \in 0..100 ]_vars

\* C5 as stated: durable storage holds exactly the current collection, so a
\* page load restores the materials as they are now.
C5_StorageIsCurrent == LoadedMaterials(localStorage) = materials

\* C6 as stated, for a material whose stored text and language are not
\* empty: whenever new questions can be requested for the selected, completed
\* material, the request passes the handler's guard and issues the call; and
\* the call in flight carries the material's text and language.
C6_NewQuestionsIssuesCall ==
  /\ ( /\ NewQuestionsButtonEnabled
       /\ Get(selectedMaterial).id \in Ids(materials)
       /\ LET m == Find(materials, Get(selectedMaterial).id)
          IN /\ m.processingStatus = "completed"
             /\ m.extractedText # <<>>
             /\ m.detectedLanguage # None
             /\ m.detectedLanguage # Some(<<>>) )
     => ~NewQuestionsEarlyReturn(Get(selectedMaterial))
  /\ IsSome(questionsRun) =>
       LET sel == Get(questionsRun).sel
       IN Get(questionsRun).req =
            NewQuestionsPrompt(sel.extractedText, Get(sel.detectedLanguage))

SameButQuestions(m, n) ==
  /\ [m EXCEPT !.content = None] = [n EXCEPT !.content = None]
  /\ IsSome(m.content) = IsSome(n.content)
  /\ IsSome(m.content) =>
       [Get(m.content) EXCEPT !.quizQuestions = <<>>] =
       [Get(n.content) EXCEPT !.quizQuestions = <<>>]

\* C7: the step that ends a new-questions operation changes at most the
\* quizQuestions of the targeted material's content; everything else of
\* that material and every other material stay as they were.
C7_NewQuestionsFrame ==
  [][ (\E response \in NewQuestionsResponses : NewQuestionsReturn(response))
      => /\ Len(materials') = Len(materials)
         /\ \A i \in 1..Len(materials) :
              IF materials[i].id = Get(questionsRun).sel.id
              THEN SameButQuestions(materials[i], materials'[i])
              ELSE materials'[i] = materials[i] ]_vars

\* A material whose questions were replaced and whose lessons are the original ones
C7_Witness ==
  \E i \in 1..Len(materials) :
    /\ IsSome(materials[i].content)
    /\ Get(materials[i].content).quizQuestions = <<QuestionB, QuestionA>>
    /\ Get(materials[i].content).microLessons = <<LessonA, LessonB>>

\* C8: a free session creates at most FREE_DAILY_LIMIT materials a day, and
\* once that many uploads were accepted today no step of a free session
\* creates a material, starts a run or increments the counter.
C8_FreeDailyLimit ==
  /\ [](accepted.free <= FREE_DAILY_LIMIT)
  /\ [][ (accepted.all >= FREE_DAILY_LIMIT /\ ~SessionPremium)
         => /\ nextId' = nextId
            /\ Ids(materials') \subseteq Ids(materials)
            /\ DOMAIN runs' \subseteq DOMAIN runs
            /\ todayUploadCount' <= todayUploadCount ]_vars

\* A free session that has used up the day's uploads and is rejected
C8_Witness ==
  accepted.free = FREE_DAILY_LIMIT /\ ~SessionPremium /\ GateRejects

\* C9 as stated: whenever the stored counter's date differs from today the
\* count the gate consults (and the next upload increments) is 0.
C9_CounterResetsOnNewDay ==
  (IsSome(localStorage.limits) /\ Get(localStorage.limits).date # today)
    => todayUploadCount = 0

\* C10: a material has content if and only if it is completed
C10_ContentIffCompleted ==
  \A i \in 1..Len(materials) :
    IsSome(materials[i].content) <=> materials[i].processingStatus = "completed"

\* A completed material with its content
C10_Witness ==
  \E i \in 1..Len(materials) :
    materials[i].processingStatus = "completed" /\ IsSome(materials[i].content)

\* C11: a material has an error value if and only if its status is error
C11_ErrorIffStatusError ==
  \A i \in 1..Len(materials) :
    IsSome(materials[i].error) <=> materials[i].processingStatus = "error"

\* A material whose text extraction failed: status error with its message
C11_Witness ==
  \E i \in 1..Len(materials) :
    /\ materials[i].processingStatus = "error"
    /\ materials[i].fileUrl = "url"
    /\ materials[i].id \notin chatFailed
    /\ materials[i].error = Some("Unknown error")

\* The errors the client names
InputErrors ==
  { "At least one message is required", "Each message must have a role and content",
    "Invalid message role" }

BackendErrors ==
  { "Chat completion request failed. Please check your API credentials.",
    "No response data received from chat completion API",
    "No completion choices returned from API",
    "No content in completion response" }

\* The message list is empty, or a message has an empty role, an empty
\* content or a role outside system, user, assistant
InvalidInput(messages) ==
  \/ messages = <<>>
  \/ \E i \in 1..Len(messages) :
       \/ messages[i].role = ""
       \/ messages[i].content = <<>>
       \/ messages[i].role \notin {"system", "user", "assistant"}

\* C12 as stated: for a valid message list the invocation returns a response
\* with non-empty content and a finish reason among stop, length,
\* function_call, content_filter, null, or fails with one of the client's
\* named errors, whatever the backend returned.
C12_WellFormedOrNamedError ==
  (IsSome(probe.result) /\ ~InvalidInput(probe.messages)) =>
    LET r == Get(probe.result)
    IN \/ r.ok /\ r.content # <<>> /\ r.finishReason \in FinishReasons
       \/ ~r.ok /\ r.message \in InputErrors \cup BackendErrors

\* C13: an invocation with an invalid message list fails with an input error
\* and makes no backend request.
C13_InvalidInputRejected ==
  (IsSome(probe.result) /\ InvalidInput(probe.messages)) =>
    /\ ~Get(probe.result).ok
    /\ Get(probe.result).message \in InputErrors
    /\ probe.requests = 0

\* An invocation whose second message has a role outside the valid ones,
\* against a backend that would have answered
C13_Witness ==
  /\ IsSome(probe.result)
  /\ probe.messages = << Message("user", <<"hi">>), Message("tool", <<"x">>) >>
  /\ probe.response = BackendOk(<<"ok">>)

\* The completion is not valid JSON, or is valid JSON without the field
LacksField(text, field) ==
  \/ JsonParse(text) = None
  \/ Get(JsonParse(text))[field] = None

\* C14 as stated: when a completion is not valid JSON or lacks the expected
\* field, lesson extraction yields exactly one lesson with the generic title
\* and the raw completion as content, and quiz and flashcard extraction
\* yield the empty list.
C14_ParserFallback ==
  IsSome(probe.content) =>
    LET content == Get(probe.content)
    IN /\ LacksField(probe.lessons, "lessons") =>
            content.microLessons = <<[title |-> "Overview", content |-> probe.lessons]>>
       /\ LacksField(probe.quiz, "questions") => content.quizQuestions = <<>>
       /\ LacksField(probe.flashcards, "flashcards") => content.flashcards = <<>>

\* C15: when a completion is valid JSON whose expected field holds a list,
\* the list placed in the generated content is the decoded list: same
\* length, same records, same order.
C15_ParserExact ==
  IsSome(probe.content) =>
    LET content == Get(probe.content)
    IN /\ ~LacksField(probe.lessons, "lessons") =>
            content.microLessons = Get(Get(JsonParse(probe.lessons)).lessons)
       /\ ~LacksField(probe.quiz, "questions") =>
            content.quizQuestions = Get(Get(JsonParse(probe.quiz)).questions)
       /\ ~LacksField(probe.flashcards, "flashcards") =>
            content.flashcards = Get(Get(JsonParse(probe.flashcards)).flashcards)

\* Three completions of the expected shape, parsed: two lessons in their
\* order, two questions in their order, one flashcard
C15_Witness ==
  /\ IsSome(probe.content)
  /\ Get(probe.content).microLessons = <<LessonA, LessonB>>
  /\ Get(probe.content).quizQuestions = <<QuestionB, QuestionA>>
  /\ Get(probe.content).flashcards = <<CardA>>

\* C16 as stated: every quiz question held in a material's content has a
\* correctAnswer index that is one of its options' positions, counted from 0.
C16_CorrectAnswerInRange ==
  \A i \in 1..Len(materials) :
    IsSome(materials[i].content) =>
      \A k \in 1..Len(Get(materials[i].content).quizQuestions) :
        LET q == Get(materials[i].content).quizQuestions[k]
        IN 0 <= q.correctAnswer /\ q.correctAnswer < Len(q.options)

\* out is raw without its leading and trailing white space, nothing else changed
IsTrimOf(out, raw) ==
  \E i \in 1..(Len(raw) + 1), j \in 0..Len(raw) :
    /\ out = SubSeq(raw, i, j)
    /\ \A k \in 1..(i - 1) : IsSpace(raw[k])
    /\ \A k \in (j + 1)..Len(raw) : IsSpace(raw[k])
    /\ out # <<>> => ~IsSpace(out[1]) /\ ~IsSpace(out[Len(out)])

\* The prompt a run sends at a stage after the detection, naming language
PromptNaming(run, stage, language) ==
  CASE stage = "lessons" -> LessonsPrompt(run.extractedText, language, run.lessonLength)
    [] stage = "quiz" -> QuizPrompt(run.extractedText, language)
    [] stage = "summary" -> SummaryPrompt(run.extractedText, language)
    [] stage = "flashcards" -> FlashcardsPrompt(run.extractedText, language)
    [] stage = "title" -> TitlePrompt(run.extractedText, language)
    [] stage = "category" -> CategoryPrompt(run.extractedText, language)

\* C17: in a run, the language named in the prompt of every call after the
\* detection and the detectedLanguage of the produced content are the
\* detection completion without its surrounding white space; and the step
\* that completes the material stores that same language on it.
C17_LanguageThreaded ==
  /\ [](\A id \in DOMAIN runs :
          runs[id].pc \in ChatStages \ {"detect"} =>
            /\ IsTrimOf(runs[id].detectedLanguage, runs[id].languageAnswer)
            /\ runs[id].req = PromptNaming(runs[id], runs[id].pc, runs[id].detectedLanguage)
            /\ IsSome(runs[id].content) =>
                 Get(runs[id].content).detectedLanguage = runs[id].detectedLanguage)
  /\ [][ \A id \in DOMAIN runs :
           (id \in Ids(materials') /\ StatusOf(materials', id) = "completed") =>
             LET m == Find(materials', id)
             IN /\ m.detectedLanguage = Some(runs[id].detectedLanguage)
                /\ Get(m.content).detectedLanguage = runs[id].detectedLanguage ]_vars

\* A completed material whose detection completion had white space around
\* and inside the language name
C17_Witness ==
  \E i \in 1..Len(materials) :
    /\ materials[i].processingStatus = "completed"
    /\ materials[i].detectedLanguage = Some(<<"f", "r", " ", "C", "A">>)

\* Two texts have the same first n characters
AgreeOnPrefix(a, b, n) ==
  \A i \in 1..n :
    /\ i <= Len(a) <=> i <= Len(b)
    /\ i <= Len(a) => a[i] = b[i]

\* C18: for two extracted texts that agree on their first N characters, N
\* the longest prefix a prompt includes, and the same language and lesson
\* length, every prompt of the run and of a new-questions request is the
\* same for both texts; the generated content is made from the answers to
\* these prompts alone.
C18_PrefixOnly ==
  (IsSome(probe.promptsA) /\ AgreeOnPrefix(probe.textA, probe.textB, ContentPrefixLen))
    => probe.promptsA = probe.promptsB

\* Two texts that differ only in the character after the prefix, with their prompts
C18_Witness ==
  /\ IsSome(probe.promptsA)
  /\ probe.textA = TextWith(ContentPrefixLen + 1, 0)
  /\ probe.textB = TextWith(ContentPrefixLen + 1, ContentPrefixLen + 1)

\* A step taken on behalf of document id: its acceptance or a continuation
\* of its handleFileUpload invocation
ProcessingStepOf(id) ==
  \/ nextId = id /\ \E file \in Files : HandleFileUploadAccepted(file)
  \/ PipelineStepOf(id)

\* The record document id has when its processing ran alone and stopped at
\* the await the run is at, given the answers the run received
AloneRecord(id, name, run) ==
  LET new == NewMaterial(id, [name |-> name, valid |-> TRUE])
  IN IF run.pc = "upload" THEN new
     ELSE IF run.pc = "extract" THEN SetUploaded(new)
     ELSE [SetUploaded(new) EXCEPT !.extractedText = run.extractedText]

\* The final records of document id processed alone: completed with the
\* content and metadata made from the run's answers, or failed with a message
AloneFinals(id, name, run) ==
  { SetCompleted(SetMetadata(AloneRecord(id, name, run),
                             [run EXCEPT !.content = Some(LearningContent(run)),
                                         !.detectedLanguage = Trim(run.languageAnswer)],
                             Trim(category)),
                 [LearningContent(run) EXCEPT !.detectedLanguage = Trim(run.languageAnswer)]) :
      category \in CategoryAnswers }
  \cup { SetError(AloneRecord(id, name, run), msg) :
           msg \in UploadErrors \cup ExtractErrors \cup BackendErrors }

\* C19: with the processing of two documents interleaved in any order, a
\* step taken for one document leaves every other record of the store as it
\* was, and the record a document ends with (completed or error) is the one
\* its processing alone gives for the answers its run received.
C19_InterleavingIndependent ==
  [][ \A id \in MaterialIds :
        /\ ProcessingStepOf(id) =>
             \A i \in 1..Len(materials) :
               materials[i].id # id => i <= Len(materials') /\ materials'[i] = materials[i]
        /\ ( /\ id \in DOMAIN runs
             /\ runs' = WithoutRun(id)
             /\ id \in Ids(materials')
             /\ StatusOf(materials', id) \in {"completed", "error"} )
           => Find(materials', id) \in
                AloneFinals(id, Find(materials', id).fileName, runs[id]) ]_vars

\* The second document is completed while the first, uploaded before it, is
\* still waiting for a chat call
C19_Witness ==
  /\ 1 \in DOMAIN runs
  /\ runs[1].pc \in ChatStages
  /\ 2 \in Ids(materials)
  /\ StatusOf(materials, 2) = "completed"
  /\ 1 \in Ids(materials)
  /\ StatusOf(materials, 1) = "processing"

Terminal(id) ==
  IF id \in Ids(materials) THEN StatusOf(materials, id) \in {"completed", "error"} ELSE TRUE

\* C20 as stated: if every call eventually returns or fails, a material in
\* the store is eventually completed, in error, or deleted.
C20_EventuallyTerminal ==
  \A id \in RunIds : (id \in Ids(materials)) ~> Terminal(id)

(***************************************************************************)
(* Quiz attempts                                                           *)
(***************************************************************************)
HistoryOf(ms, id) == Find(ms, id).quizResults

\* percentage = correct / total x 100, with 0 <= correct <= total
WellFormedAttempt(r) ==
  /\ 0 <= r.correctAnswers
  /\ r.correctAnswers <= r.totalQuestions
  /\ r.percentage # NaN
  /\ r.percentage # <<>>
  /\ r.percentage[1] * r.totalQuestions = 100 * r.correctAnswers * r.percentage[2]

\* C21: over every step that keeps a material in the store, the material's
\* history of quiz attempts keeps every earlier attempt at its position with
\* its values and grows by at most one attempt, at its end; checking the
\* answers of a stored material appends exactly one attempt, whose correct
\* count lies between 0 and its total and whose percentage is
\* correct / total x 100.
C21_HistoryAppendOnly ==
  [][ /\ \A id \in Ids(materials) \cap Ids(materials') :
           LET before == HistoryOf(materials, id)
               after == HistoryOf(materials', id)
           IN /\ IsPrefix(before, after)
              /\ Len(after) <= Len(before) + 1
              /\ Len(after) = Len(before) + 1 => WellFormedAttempt(after[Len(after)])
      /\ (checkAllAnswers /\ Get(selectedMaterial).id \in Ids(materials)) =>
           Len(HistoryOf(materials', Get(selectedMaterial).id))
             = Len(HistoryOf(materials, Get(selectedMaterial).id)) + 1 ]_vars

\* A stored history of two attempts with different results, as saved
C21_Witness ==
  \E id \in Ids(materials) :
    /\ Len(HistoryOf(materials, id)) = 2
    /\ HistoryOf(materials, id)[1].correctAnswers = 1
    /\ HistoryOf(materials, id)[2].correctAnswers = 2
    /\ localStorage.materials = Some(Stringify(materials))

(***************************************************************************)
(* The sorted view                                                         *)
(***************************************************************************)
Occurrences(x, seq) == Cardinality({ i \in 1..Len(seq) : seq[i] = x })

IsPermutation(s, t) ==
  /\ Len(s) = Len(t)
  /\ \A x \in Elems(s) \cup Elems(t) : Occurrences(x, s) = Occurrences(x, t)

\* C22: for each of the three sort keys, computing the sorted view leaves
\* the stored collection as it was, the same records in the same order, and
\* the view is a permutation of the stored collection.
C22_SortedViewIsProjection ==
  IsSome(probe.view) =>
    /\ probe.materials = probe.stored
    /\ IsPermutation(Get(probe.view), probe.stored)

\* Three stored materials shown in another order than the stored one
C22_Witness ==
  /\ IsSome(probe.view)
  /\ Len(probe.stored) = 3
  /\ Get(probe.view) # probe.stored
  /\ Get(probe.view)[1] = probe.stored[3]

\* The category a material is listed under: "Other" when it has none
ClaimedCategory(m) ==
  IF m.thematicCategory \in {None, Some("")} THEN "Other" ELSE Get(m.thematicCategory)

\* a is not after b in the order: category ascending, then upload time descending
ThemeOrdered(a, b) ==
  \/ localeCompare(ClaimedCategory(a), ClaimedCategory(b)) < 0
  \/ /\ ClaimedCategory(a) = ClaimedCategory(b)
     /\ a.uploadedAt >= b.uploadedAt

\* C23: with the theme sort key, every adjacent pair of the view is in
\* order: by thematic category ascending, a material without a category
\* counting as "Other", and by upload time descending within a category.
C23_ThemeOrder ==
  (IsSome(probe.view) /\ probe.sortBy = "theme") =>
    \A i \in 1..(Len(Get(probe.view)) - 1) :
      ThemeOrdered(Get(probe.view)[i], Get(probe.view)[i + 1])

\* A material without a category between "History" and "Science", and two
\* materials of one category stored oldest first and shown newest first
C23_Witness ==
  /\ IsSome(probe.view)
  /\ probe.sortBy = "theme"
  /\ Len(probe.stored) = 3
  /\ probe.stored[1].thematicCategory = None
  /\ probe.stored[1].uploadedAt = 1
  /\ probe.stored[2].thematicCategory = None
  /\ probe.stored[2].uploadedAt = 2
  /\ probe.stored[3].thematicCategory = Some("History")
  /\ Get(probe.view) = << probe.stored[3], probe.stored[2], probe.stored[1] >>

\* C24: for each sort key, sorting the sorted view again gives the order
\* that sorting once gave.
C24_SortIdempotent ==
  IsSome(probe.again) => Get(probe.again) = Get(probe.view)

\* A view by name with two materials of the same name, not in stored order
C24_Witness ==
  /\ IsSome(probe.again)
  /\ probe.sortBy = "name"
  /\ Len(probe.stored) = 3
  /\ probe.stored[1].fileName = "renamed.txt"
  /\ probe.stored[2].fileName = "notes.txt"
  /\ probe.stored[3].fileName = "notes.txt"
  /\ Get(probe.view) = << probe.stored[2], probe.stored[3], probe.stored[1] >>

(***************************************************************************)
(* Lesson length                                                           *)
(***************************************************************************)
ClaimedCount(length) ==
  CASE length = "short" -> "2-3" [] length = "normal" -> "4-5" [] length = "long" -> "6-8"

\* C25: the prompt of the lessons call asks for "2-3", "4-5" or "6-8"
\* lessons according to the length setting that was in force when the
\* upload was started, whatever the setting has been changed to since.
C25_LessonCountFromLengthAtStart ==
  /\ [][ \A id \in DOMAIN runs' \ DOMAIN runs : runs'[id].lessonLength = lessonLength ]_vars
  /\ [][ \A id \in DOMAIN runs' \cap DOMAIN runs :
           runs'[id].lessonLength = runs[id].lessonLength ]_vars
  /\ [](\A id \in DOMAIN runs :
          runs[id].pc = "lessons" =>
            /\ runs[id].req[1].role = "system"
            /\ runs[id].req[1].content[2] = ClaimedCount(runs[id].lessonLength))

\* A lessons call asking for 2-3 lessons after the setting was changed from
\* short to long during the run
C25_Witness ==
  \E id \in DOMAIN runs :
    /\ runs[id].pc = "lessons"
    /\ runs[id].req[1].content[2] = "2-3"
    /\ lessonLength = "long"

(***************************************************************************)
(* Selection                                                               *)
(***************************************************************************)
\* C26: a selected material is always a material of the store, and the
\* selection moves to another material only when the user selects a
\* material or starts an upload; deletions, upload completions and
\* new-questions completions at most clear it.
C26_SelectionInStore ==
  /\ [](IsSome(selectedMaterial) => Get(selectedMaterial).id \in Ids(materials))
  /\ [][ (IsSome(selectedMaterial') /\ SelectedId(selectedMaterial') # SelectedId(selectedMaterial)) =>
           \/ \E id \in Ids(materials) : SelectMaterial(id)
           \/ \E file \in Files : HandleFileUploadAccepted(file) ]_vars

(***************************************************************************)
(* Materials in processing                                                 *)
(***************************************************************************)
\* C27: every material of the store whose status is pending or processing
\* is being processed by a handleFileUpload invocation in flight, after a
\* page load as well.
C27_ProcessingHasRun ==
  \A i \in 1..Len(materials) :
    materials[i].processingStatus \in {"pending", "processing"} =>
      materials[i].id \in DOMAIN runs

(***************************************************************************)
(* New questions that do not arrive                                        *)
(***************************************************************************)
\* The call fails, the completion is not JSON, it has no questions field,
\* or its list of questions is empty
NoNewQuestions ==
  { BackendError, BackendOk(<<"not json">>), BackendOk(<<"{}">>), BackendOk(<<"{questions:[]}">>) }

\* C28: when the chat call of a new-questions request fails, or its
\* completion is not valid JSON, has no questions field or has an empty
\* list of questions, the store and what is saved of it stay as they are,
\* the answers given and revealed are kept, and the generating flag is
\* false again.
C28_NoQuestionsChangesNothing ==
  [][ \A response \in NoNewQuestions :
        NewQuestionsReturn(response) =>
          /\ materials' = materials
          /\ localStorage' = localStorage
          /\ quizAnswers' = quizAnswers
          /\ revealedAnswers' = revealedAnswers
          /\ isGeneratingQuestions
          /\ ~isGeneratingQuestions' ]_vars

\* A request has ended without new questions while the quiz of the
\* selected material was answered in part and revealed in part
C28_Witness ==
  /\ questionsOutcome = Some("kept")
  /\ ~isGeneratingQuestions
  /\ IsSome(selectedMaterial)
  /\ Get(selectedMaterial).id \in Ids(materials)
  /\ Get(Find(materials, Get(selectedMaterial).id).content).quizQuestions = <<QuestionB, QuestionA>>
  /\ DOMAIN quizAnswers = {1, 2}
  /\ revealedAnswers = {1}

(***************************************************************************)
(* Accounts                                                                *)
(***************************************************************************)
StoredPremium(email) ==
  /\ email \in DOMAIN localStorage.users
  /\ localStorage.users[email].userData.isPremium

\* C29: from an empty local storage, over registrations, logins, logouts,
\* premium upgrades and page loads, the premium flag of the session is
\* true only while a user is logged in whose stored account is premium;
\* a logout leaves it false; and a premium upgrade while nobody is logged
\* in changes nothing.
C29_PremiumOnlyForPremiumUser ==
  /\ [](subscription.isPremium =>
          /\ IsSome(currentUser)
          /\ StoredPremium(Get(currentUser).email))
  /\ [][ (IsSome(currentUser) /\ currentUser' = None) => ~subscription'.isPremium ]_vars
  /\ [][ (currentUser = None /\ handlePremiumUpgrade) =>
           /\ currentUser' = None
           /\ subscription' = subscription
           /\ localStorage' = localStorage ]_vars

\* A free user is logged in after a page load while another account is premium
C29_Witness ==
  /\ currentUser = Some([email |-> "d@e.f", isPremium |-> FALSE])
  /\ ~subscription.isPremium
  /\ StoredPremium("a@b.c")
  /\ localStorage.subscription = Some([isPremium |-> FALSE])
  /\ authError = ""

\* The attempts the claim calls failed
RegisterFails(email, password, confirmPassword) ==
  \/ email = "not an email"
  \/ Len(password) < 6
  \/ password # confirmPassword
  \/ email \in DOMAIN localStorage.users

LoginFails(email, password) ==
  \/ email = "not an email"
  \/ Len(password) < 6
  \/ email \notin DOMAIN localStorage.users
  \/ localStorage.users[email].password # password

NobodyLoggedIn ==
  /\ currentUser' = None
  /\ localStorage'.currentUserEmail = None

\* C30: a registration with an invalid address, a password of fewer than 6
\* characters, a confirmation that differs or an address already
\* registered, and a login with an invalid address, such a password, an
\* unknown address or a wrong password, leave the table of accounts as it
\* was and nobody logged in; no step changes or removes the password of a
\* registered address; and a login logs in the account of the address
\* entered, and only with the password stored for it.
C30_FailedAttemptsChangeNothing ==
  /\ [][ \A email \in AccountEmails \cup {"not an email"} :
          \A password \in AccountPasswords :
            /\ \A confirm \in AccountPasswords :
                 (handleRegister(email, password, confirm)
                    /\ RegisterFails(email, password, confirm)) =>
                   (localStorage'.users = localStorage.users /\ NobodyLoggedIn)
            /\ (handleLogin(email, password) /\ LoginFails(email, password)) =>
                 (localStorage'.users = localStorage.users /\ NobodyLoggedIn)
            /\ (handleLogin(email, password) /\ IsSome(currentUser')) =>
                 /\ email \in DOMAIN localStorage.users
                 /\ localStorage.users[email].password = password
                 /\ Get(currentUser').email = email ]_vars
  /\ [][ \A email \in DOMAIN localStorage.users :
           /\ email \in DOMAIN localStorage'.users
           /\ localStorage'.users[email].password = localStorage.users[email].password ]_vars

\* A login with a wrong password has just been refused, with both addresses
\* registered under different passwords
C30_Witness ==
  /\ authError = "wrong password"
  /\ currentUser = None
  /\ localStorage.currentUserEmail = None
  /\ DOMAIN localStorage.users = AccountEmails
  /\ localStorage.users["a@b.c"].password = GoodPassword
  /\ localStorage.users["d@e.f"].password = OtherPassword

====
